---- MODULE Spec2Model ----
(***************************************************************************)
(* Verification model of the knight-shift-ai search core: the              *)
(* transposition table, the alpha-beta engine tiers and the Monte Carlo    *)
(* tree search, as state machines translated from the Python sources.      *)
(*                                                                         *)
(* Two specifications share the variables:                                 *)
(*   SpecTT  - a TranspositionTable driven by arbitrary store / probe /    *)
(*             clear calls;                                                *)
(*   Spec    - an engine instance answering choose_move calls on abstract  *)
(*             game trees under a wall-clock deadline (FairSpec adds the   *)
(*             fairness of a running interpreter and a running clock).     *)
(*                                                                         *)
(* The hit / miss / overwrite statistics of the table are write-only (only *)
(* get_stats reads them) and are left out; TTEntry.best_move is never      *)
(* passed by any engine and is left out.                                   *)
(***************************************************************************)
EXTENDS Integers, Sequences, FiniteSets, TLC

VARIABLES
    tt,         \* TranspositionTable.table : dict index -> TTEntry
    cached,     \* result of the most recent TranspositionTable.probe
    engine,     \* the tier of the engine instance
    calls,      \* choose_move calls started on the instance
    board,      \* the position borrowed by the running choose_move
    time_limit, \* its time_limit argument: None or <<ticks>>
    elapsed,    \* time.perf_counter() - start, in clock ticks
    pc,         \* where choose_move is
    cm,         \* the local variables of choose_move
    stack,      \* the frames of the recursive search below choose_move
    result,     \* the SearchResult returned by the last call: None or <<r>>
    ttCall,     \* history: for each table slot, the call that wrote it
    hitFrom,    \* history: the call that wrote the entry the last hit returned
    completed,  \* history: None or <<what the last iteration that ran to its
                \*   end without a deadline break produced>>
    cut,        \* history: a deadline check broke a loop of the running iteration
    trial,      \* a function applied outside a search: None or
                \*   [fn, args, value]
    aborted,    \* history: simulations of the running call that returned at
                \*   the deadline check of the selection loop
    first,      \* history: None or <<the position and the answer of the first
                \*   call of the instance>>, kept for the tiers that draw no
                \*   random numbers when no deadline expired during that call
    m2m,        \* M2MController: the worker threads playing games, the games
                \*   queued in the thread pool, and the engines get_engine cached
    gm,         \* GameManager: games (game_id -> GameSession) and the entries
                \*   of its HistoryStore, newest first
    tc          \* TrainingController: tasks (training_id -> TrainingTask with
                \*   its thread and its subprocess)

ttVars == <<tt, cached>>
histVars == <<ttCall, hitFrom>>
iterVars == <<completed, cut>>
auxVars == <<trial, aborted, first, m2m, gm, tc>>
searchVars == <<engine, calls, board, time_limit, elapsed, pc, cm, stack, result>>
vars == <<tt, cached, engine, calls, board, time_limit, elapsed, pc, cm, stack,
          result, ttCall, hitFrom, completed, cut, trial, aborted, first, m2m,
          gm, tc>>

\* Python's None (Optional results are None or a tuple).
None == <<>>

\* M2MController before any match is started: no worker thread, nothing
\* queued, and an empty get_engine cache.
NoGames == [cache |-> {}, queue |-> 0, threads |-> <<>>]

\* GameManager.__init__ with a new HistoryStore: no session, no entry.
NoSessions == [games |-> <<>>, history |-> <<>>]

\* TrainingController.__init__: no task.
NoTasks == <<>>

Max(a, b) == IF a >= b THEN a ELSE b
Min(a, b) == IF a <= b THEN a ELSE b

(***************************************************************************)
(* TranspositionTable  (backend/app/engine/transposition_table.py)         *)
(***************************************************************************)
EXACT == 0
LOWER_BOUND == 1
UPPER_BOUND == 2
Flags == {EXACT, LOWER_BOUND, UPPER_BOUND}

\* Every engine constructs its table with tt_size_mb = 16.
TT_SIZE_MB == 16
ENTRY_SIZE == 24
MIN_ENTRIES == 1024

RECURSIVE Pow2Floor(_, _)
Pow2Floor(size, num_entries) ==
    IF size * 2 <= num_entries THEN Pow2Floor(size * 2, num_entries) ELSE size

\* TranspositionTable.__init__: the number of slots for a megabyte budget.
TTSizeOf(size_mb) ==
    LET num_entries == (size_mb * 1024 * 1024) \div ENTRY_SIZE
    IN  Max(MIN_ENTRIES, Pow2Floor(1, num_entries))

TTSize == TTSizeOf(TT_SIZE_MB)

RECURSIVE BitAnd(_, _)
BitAnd(a, b) ==
    IF a = 0 \/ b = 0 THEN 0
    ELSE (a % 2) * (b % 2) + 2 * BitAnd(a \div 2, b \div 2)

\* The hash keys that occur: 64-bit Zobrist hashes in the program, here two
\* table slots with two colliding keys each.
SampleKeys == {0, 1, TTSize, TTSize + 1}
PositionKeys == (0 .. 47) \cup {TTSize + i : i \in 0 .. 47}

\* TranspositionTable._index, tabulated over the keys that occur.
IndexTable == [hash_key \in SampleKeys \cup PositionKeys |-> BitAnd(hash_key, TTSize - 1)]
Index(hash_key) == IndexTable[hash_key]

TTEntry(hash_key, score, depth, flag) ==
    [hash_key |-> hash_key, score |-> score, depth |-> depth, flag |-> flag]

\* Variants of store used to test the claims (replacement policy bugs).
StoreStrictlyDeeper(table, hash_key, score, depth, flag) ==
    LET idx == Index(hash_key)
    IN  IF idx \notin DOMAIN table
        THEN (idx :> TTEntry(hash_key, score, depth, flag)) @@ table
        ELSE IF table[idx].hash_key = hash_key \/ depth > table[idx].depth
             THEN (idx :> TTEntry(hash_key, score, depth, flag)) @@ table
             ELSE table

\* TranspositionTable.store
Store(table, hash_key, score, depth, flag) ==
    LET idx == Index(hash_key)
    IN  IF idx \notin DOMAIN table
        THEN (idx :> TTEntry(hash_key, score, depth, flag)) @@ table
        ELSE IF table[idx].hash_key = hash_key \/ depth >= table[idx].depth
             THEN (idx :> TTEntry(hash_key, score, depth, flag)) @@ table
             ELSE table

\* Variants of probe used to test the claims.
ProbeIgnoresDepth(table, hash_key, depth, alpha, beta) ==
    LET idx == Index(hash_key)
    IN  IF idx \notin DOMAIN table THEN None
        ELSE LET entry == table[idx]
             IN  IF entry.hash_key # hash_key THEN None
                 ELSE IF entry.flag = EXACT THEN <<entry.score, EXACT>>
                 ELSE IF entry.flag = LOWER_BOUND /\ entry.score >= beta
                      THEN <<entry.score, LOWER_BOUND>>
                 ELSE IF entry.flag = UPPER_BOUND /\ entry.score <= alpha
                      THEN <<entry.score, UPPER_BOUND>>
                 ELSE None

ProbeIgnoresWindow(table, hash_key, depth, alpha, beta) ==
    LET idx == Index(hash_key)
    IN  IF idx \notin DOMAIN table THEN None
        ELSE LET entry == table[idx]
             IN  IF entry.hash_key # hash_key THEN None
                 ELSE IF entry.depth < depth THEN None
                 ELSE <<entry.score, entry.flag>>

ProbeIgnoresKey(table, hash_key, depth, alpha, beta) ==
    LET idx == Index(hash_key)
    IN  IF idx \notin DOMAIN table THEN None
        ELSE LET entry == table[idx]
             IN  IF entry.depth < depth THEN None
                 ELSE IF entry.flag = EXACT THEN <<entry.score, EXACT>>
                 ELSE IF entry.flag = LOWER_BOUND /\ entry.score >= beta
                      THEN <<entry.score, LOWER_BOUND>>
                 ELSE IF entry.flag = UPPER_BOUND /\ entry.score <= alpha
                      THEN <<entry.score, UPPER_BOUND>>
                 ELSE None

\* TranspositionTable.probe
Probe(table, hash_key, depth, alpha, beta) ==
    LET idx == Index(hash_key)
    IN  IF idx \notin DOMAIN table THEN None
        ELSE LET entry == table[idx]
             IN  IF entry.hash_key # hash_key THEN None
                 ELSE IF entry.depth < depth THEN None
                 ELSE IF entry.flag = EXACT THEN <<entry.score, EXACT>>
                 ELSE IF entry.flag = LOWER_BOUND /\ entry.score >= beta
                      THEN <<entry.score, LOWER_BOUND>>
                 ELSE IF entry.flag = UPPER_BOUND /\ entry.score <= alpha
                      THEN <<entry.score, UPPER_BOUND>>
                 ELSE None

\* TranspositionTable.clear
Clear(table) == <<>>

(***************************************************************************)
(* The Position interface (python-chess Board, an external collaborator).  *)
(* A game is a finite tree of positions; a position carries what the       *)
(* engines read from it:                                                   *)
(*   kind  - "normal", "checkmate", "stalemate", "insufficient" (material) *)
(*           or "claimable" (threefold / fifty-move draw claim);           *)
(*   ev    - the value of the tier's static evaluate(board);               *)
(*   mat   - the material balance seen by the side to move;                *)
(*   key   - the Zobrist hash of the position;                             *)
(*   moves - board.legal_moves in generation order, each with the facts    *)
(*           the move orderers and the quiescence filters read.            *)
(* A position has no legal move exactly when it is checkmate or stalemate. *)
(***************************************************************************)
\* PIECE_VALUES
PAWN_VALUE == 100
KNIGHT_VALUE == 320
ROOK_VALUE == 500
QUEEN_VALUE == 900

Position(kind, ev, mat, key, moves) ==
    [kind |-> kind, ev |-> ev, mat |-> mat, key |-> key, moves |-> moves]

Move(capture, captured, mover, check, to) ==
    [capture |-> capture, captured |-> captured, mover |-> mover,
     check |-> check, safe |-> TRUE, promotion |-> 0, threat |-> FALSE, to |-> to]

Quiet(to) == Move(FALSE, 0, 0, FALSE, to)
UnsafeCheck(to) == [Move(FALSE, 0, 0, TRUE, to) EXCEPT !.safe = FALSE]
Promotion(piece, to) == [Move(FALSE, 0, PAWN_VALUE, FALSE, to) EXCEPT !.promotion = piece]
Threat(to) == [Move(FALSE, 0, PAWN_VALUE, FALSE, to) EXCEPT !.threat = TRUE]
Check(to) == Move(FALSE, 0, 0, TRUE, to)
Capture(captured, mover, to) == Move(TRUE, captured, mover, FALSE, to)

\* Side to move is checkmated.
GameMated == Position("checkmate", -300, -300, 1, <<>>)

\* Side to move is stalemated, a rook down.
GameStalemated == Position("stalemate", -500, -500, 2, <<>>)

\* Mate in one (a quiet check) next to a pawn-takes-queen capture that also
\* wins: after the capture the opponent has one reply and is mated next move.
GameMateInOne ==
    Position("normal", 0, 0, 3, <<
        Check(Position("checkmate", -50, 0, 4, <<>>)),
        Capture(QUEEN_VALUE, PAWN_VALUE,
            Position("normal", -900, -900, 5, <<
                Quiet(Position("normal", 900, 900, 6, <<
                    Check(Position("checkmate", -900, -900, 7, <<>>)) >>)) >>)) >>)

\* Two quiet moves whose ranking changes between depth 1 and depth 2: the
\* first looks better statically but loses material to the reply.
GameHorizon ==
    Position("normal", 0, 0, 10, <<
        Quiet(Position("normal", -30, 0, 11, <<
            Quiet(Position("normal", -200, -100, 12, <<
                Quiet(Position("stalemate", 200, 100, 13, <<>>)) >>)) >>)),
        Quiet(Position("normal", -10, 0, 14, <<
            Quiet(Position("normal", 10, 0, 15, <<
                Quiet(Position("stalemate", -10, 0, 16, <<>>)) >>)) >>)) >>)

\* A transposition (two move orders reach the position with key 23), a capture
\* into a dead position and a position where a draw can be claimed.
GameTransposition ==
    LET dead == Position("insufficient", 0, 0, 24, <<
                    Quiet(Position("stalemate", 0, 0, 25, <<>>)) >>)
        shared == Position("normal", 320, 320, 23, <<
                    Capture(KNIGHT_VALUE, ROOK_VALUE, dead) >>)
        claim == Position("claimable", 300, 300, TTSize + 23, <<
                    Quiet(Position("stalemate", -300, -300, 27, <<>>)) >>)
    IN  Position("normal", 320, 320, 20, <<
            Quiet(Position("normal", -320, -320, 21, << Quiet(shared) >>)),
            Quiet(Position("normal", -320, -320, 22, << Quiet(shared), Quiet(claim) >>)) >>)

\* The moves the quiescence of Ultimate tells apart: a losing capture (queen
\* takes a defended pawn), a check by a piece that can be taken for nothing, a
\* promotion, a pawn push to the seventh rank; and a check to be evaded.
GameTactics ==
    Position("normal", 0, 0, 30, <<
        Quiet(Position("normal", 0, 0, 31, <<
            Capture(PAWN_VALUE, QUEEN_VALUE,
                Position("normal", -100, -100, 32, <<
                    Capture(QUEEN_VALUE, PAWN_VALUE, Position("stalemate", -800, -800, 33, <<>>)) >>)),
            UnsafeCheck(Position("normal", 58, 0, 34, <<
                Quiet(Position("stalemate", -58, 0, 35, <<>>)) >>)),
            Promotion(QUEEN_VALUE, Position("normal", -800, -800, 36, <<
                Quiet(Position("stalemate", 800, 800, 37, <<>>)) >>)),
            Threat(Position("normal", -20, 0, 38, <<
                Quiet(Position("insufficient", 0, 0, 39, <<
                    Quiet(Position("stalemate", 0, 0, 40, <<>>)) >>)) >>)) >>)),
        Check(Position("normal", 10, 0, 41, <<
            Quiet(Position("stalemate", -10, 0, 42, <<>>)) >>)) >>)

Games == <<GameMated, GameStalemated, GameMateInOne, GameHorizon, GameTransposition,
           GameTactics>>

(***************************************************************************)
(* Sample trees for the fixed-depth search: three plies deep, a leaf value *)
(* on each of the six positions where the search evaluates.  The moves of  *)
(* a position on the horizon are never generated and are left out.  The    *)
(* second root move is a capture, so order_moves searches it first; one    *)
(* position at ply two is a game that is over.                             *)
(***************************************************************************)
MaxLeaf == 1

\* Tree n has, as its i-th leaf value, the i-th digit of n in base
\* 2 * MaxLeaf + 1, shifted into -MaxLeaf .. MaxLeaf.
SampleTree(n) ==
    LET base == 2 * MaxLeaf + 1
        RECURSIVE digit(_, _)
        digit(k, i) == IF i = 1 THEN (k % base) - MaxLeaf ELSE digit(k \div base, i - 1)
        leaf(i) == Position("normal", digit(n, i), digit(n, i), 0, <<>>)
        inner(moves) == Position("normal", 0, 0, 0, moves)
    IN  inner(<<
            Quiet(inner(<<
                Quiet(inner(<< Quiet(leaf(1)), Quiet(leaf(2)) >>)),
                Quiet(inner(<< Quiet(leaf(3)), Quiet(leaf(4)) >>)) >>)),
            Capture(PAWN_VALUE, PAWN_VALUE, inner(<<
                Quiet(Position("stalemate", digit(n, 5), digit(n, 5), 0, <<>>)),
                Quiet(inner(<< Quiet(leaf(6)) >>)) >>)) >>)

TreeGames ==
    LET base == 2 * MaxLeaf + 1
    IN  Len(Games) + 1 .. Len(Games) + base * base * base * base * base * base

(***************************************************************************)
(* Exchange lines, the deepest a search can nest: a run of quiet moves     *)
(* (one legal move each, the side to move a little worse off) followed by  *)
(* a run of captures in which the side to move is a pawn down before it    *)
(* retakes, down to the bare kings.  A                                     *)
(* capture takes a man off the board and the kings stay, so a position     *)
(* of chess allows MaxCaptures captures in a row.  Game -q is the line     *)
(* with q quiet moves before the captures.                                 *)
(***************************************************************************)
MaxCaptures == 30
LongRun == 40

\* The position after ply moves of the line with the given quiet run; its
\* one move leads to the position a ply later.
ExchangeLine(quiet, ply) ==
    IF ply < quiet
    THEN Position("normal", -10, 0, ply % 48, << Quiet(ply + 1) >>)
    ELSE IF ply < quiet + MaxCaptures
    THEN Position("normal", -PAWN_VALUE, -PAWN_VALUE, ply % 48,
                  << Capture(PAWN_VALUE, PAWN_VALUE, ply + 1) >>)
    ELSE Position("insufficient", 0, 0, ply % 48, <<>>)

\* A position (key 6) reached by three move orders at the same depth.  Its
\* first visit is cut off (value 50 against beta 0) and leaves a lower bound;
\* the second visit has beta 0 again, the third has beta 100.
GameBound ==
    LET leaf(ev, key) == Position("normal", ev, ev, key, <<
                            Quiet(Position("stalemate", -ev, -ev, 0, <<>>)) >>)
        shared == leaf(50, 6)
    IN  Position("normal", 0, 0, 1, <<
            Quiet(Position("normal", 0, 0, 2, << Quiet(leaf(0, 5)), Quiet(shared) >>)),
            Quiet(Position("normal", 0, 0, 3, << Quiet(leaf(0, 7)), Quiet(shared) >>)),
            Quiet(Position("normal", 0, 0, 4, <<
                Capture(PAWN_VALUE, PAWN_VALUE, leaf(100, 8)), Quiet(shared) >>)) >>)

\* The position a game starts from.
Root(game) == IF game < 0 THEN ExchangeLine(-game, 0)
              ELSE IF game = 0 THEN GameBound
              ELSE IF game <= Len(Games) THEN Games[game]
              ELSE SampleTree(game - Len(Games) - 1)

RECURSIVE NodeAt(_, _)
NodeAt(node, path) ==
    IF path = <<>> THEN node ELSE NodeAt(node.moves[Head(path)].to, Tail(path))

\* The board borrowed by choose_move: which game, the side to move (TRUE for
\* the side that moves in the position passed in) and the move stack pushed
\* on top of that position.
Board(game) == [game |-> game, turn |-> TRUE, stack |-> <<>>]

\* Board.push
PushLeavesTurn(b, move) == [b EXCEPT !.stack = Append(b.stack, move)]
Push(b, move) == [b EXCEPT !.turn = ~b.turn, !.stack = Append(b.stack, move)]

\* Board.pop
Pop(b) == [b EXCEPT !.turn = ~b.turn, !.stack = SubSeq(b.stack, 1, Len(b.stack) - 1)]

Here(b) == IF b.game < 0 THEN ExchangeLine(-b.game, Len(b.stack))
           ELSE NodeAt(Root(b.game), b.stack)
LegalMoves(b) == [i \in 1 .. Len(Here(b).moves) |-> i]
MoveData(b, move) == Here(b).moves[move]

\* Board.is_game_over() with claim_draw = False.
IsGameOver(b) == Here(b).kind \in {"checkmate", "stalemate", "insufficient"}

\* Board.is_check(): the side to move is in check after a checking move, and
\* in the position passed in when that position is checkmate.
IsCheck(b) ==
    IF b.stack = <<>> THEN Here(b).kind = "checkmate"
    ELSE IF b.game < 0
    THEN ExchangeLine(-b.game, Len(b.stack) - 1).moves[b.stack[Len(b.stack)]].check
    ELSE NodeAt(Root(b.game), SubSeq(b.stack, 1, Len(b.stack) - 1))
            .moves[b.stack[Len(b.stack)]].check

(***************************************************************************)
(* base_engine.py helpers                                                  *)
(***************************************************************************)
MATE_SCORE == 20000
STALEMATE_AHEAD_BIAS == 8000
STALEMATE_BEHIND_BIAS == 500
DRAW_CLAIM_MARGIN == 200
DRAW_CLAIM_BIAS == 500

\* evaluate_terminal_position: <<score>> for a terminal position, else None.
evaluate_terminal_position(b) ==
    LET node == Here(b)
        side_eval == node.mat
    IN  CASE node.kind = "checkmate" -> <<-MATE_SCORE>>
          [] node.kind = "stalemate" ->
                <<side_eval - (IF side_eval > 0 THEN STALEMATE_AHEAD_BIAS
                                                ELSE -STALEMATE_BEHIND_BIAS)>>
          [] node.kind = "insufficient" -> <<0>>
          [] node.kind = "claimable" ->
                IF side_eval > DRAW_CLAIM_MARGIN THEN <<side_eval - DRAW_CLAIM_BIAS>>
                ELSE IF side_eval < -DRAW_CLAIM_MARGIN THEN <<side_eval + DRAW_CLAIM_BIAS>>
                ELSE <<0>>
          [] OTHER -> None

\* The static evaluators: BaseEngine.evaluate, Level4Engine.evaluate and
\* UltimateEngine.evaluate are the position's ev; Level2Engine scores by
\* evaluate_material minus the repetition penalty, which is 0 in the sample
\* positions (no position repeats along a line of a game tree).
Evaluate(tier, b) == IF tier = "level2" THEN Here(b).mat ELSE Here(b).ev

CHECK_BONUS == 500
L4_CHECK_BONUS == 300
L4_PROMOTION_BONUS == 200

\* The key order_moves sorts by (BaseEngine.order_moves, Level4Engine.order_moves).
MoveScore(tier, m) ==
    IF tier = "level4"
    THEN (IF m.capture THEN 10 * m.captured - m.mover ELSE 0)
         + (IF m.check THEN L4_CHECK_BONUS ELSE 0)
         + (IF m.promotion > 0 THEN L4_PROMOTION_BONUS ELSE 0)
    ELSE IF m.capture THEN 10 * m.captured - m.mover
         ELSE IF m.check THEN CHECK_BONUS
         ELSE 0

\* sorted(moves, key=score, reverse=True): stable, descending; key[x] is the
\* score of x.
RECURSIVE InsertDesc(_, _, _)
InsertDesc(sorted, x, key) ==
    IF sorted = <<>> THEN <<x>>
    ELSE IF key[Head(sorted)] >= key[x]
         THEN <<Head(sorted)>> \o InsertDesc(Tail(sorted), x, key)
         ELSE <<x>> \o sorted

RECURSIVE SortDesc(_, _, _)
SortDesc(done, todo, key) ==
    IF todo = <<>> THEN done
    ELSE SortDesc(InsertDesc(done, Head(todo), key), Tail(todo), key)

\* order_moves(board, board.legal_moves)
order_moves(tier, b) ==
    LET key == [i \in 1 .. Len(Here(b).moves) |-> MoveScore(tier, MoveData(b, i))]
    IN  SortDesc(<<>>, LegalMoves(b), key)

\* is_time_exceeded(start, time_limit): limit is None or a number of clock
\* ticks, now the ticks elapsed since start.
is_time_exceeded(now, limit) == limit # None /\ now >= limit[1]

(***************************************************************************)
(* The engine tiers.  "level3s" is submit/backend/app/engine/level3_engine *)
(* (the table-backed Level3); "level3" is backend/app/engine/level3_engine.*)
(***************************************************************************)
Tiers == {"level1", "level2", "level3", "level3s", "level4", "level5", "ultimate",
          "mcts"}
IDTiers == {"level3", "level3s", "level4", "ultimate"}
TTFamily == {"level3s", "level4", "ultimate"}
\* The tiers that draw no random numbers.
DetTiers == {"level1", "level3", "level3s", "level4", "level5", "ultimate"}

\* BaseEngine.__init__(use_tt=True) of the tier's constructor.
UsesTT(tier) == tier \in TTFamily \cup {"mcts"}

NEG_INF == -10000000
WINDOW == 1000000

L3_MAX_DEPTH == 4
L3S_MAX_DEPTH == 6
L4_MAX_DEPTH == 6
ULTIMATE_MAX_DEPTH == 8
L5_DEPTH == 3
L2_DEPTH == 2
L1_DEPTH == 1
L2_TOP_N == 3

max_depth(tier) ==
    CASE tier = "level3" -> L3_MAX_DEPTH
      [] tier = "level3s" -> L3S_MAX_DEPTH
      [] tier = "level4" -> L4_MAX_DEPTH
      [] tier = "ultimate" -> ULTIMATE_MAX_DEPTH
      [] tier = "level5" -> L5_DEPTH
      [] tier = "level2" -> L2_DEPTH
      [] OTHER -> L1_DEPTH

\* BaseEngine.clear_cache
ClearCacheKeeps(tier, table) == table
ClearCache(tier, table) == IF UsesTT(tier) THEN Clear(table) ELSE table

\* The time_limit arguments tried: no limit, or a deadline after 0 .. MaxLimit
\* clock ticks (0: the deadline has passed when the search starts).
MaxLimit == 1
TimeLimits == {None} \cup {<<n>> : n \in 0 .. MaxLimit}

\* choose_move calls made on one engine instance.
MaxCalls == 2

SearchResult(move, score, depth, nodes, extra_info) ==
    [move |-> move, score |-> score, depth |-> depth, nodes |-> nodes,
     extra_info |-> extra_info]

\* A frame of alphabeta / minimax ("alphabeta"), quiescence ("quiescence") or
\* the one-ply evaluation in the body of Level1's loop ("leaf").
Frame(fn, depth, alpha, beta, qdepth) ==
    [fn |-> fn, pc |-> "enter", depth |-> depth, qdepth |-> qdepth,
     alpha |-> alpha, beta |-> beta, original_alpha |-> alpha, best |-> NEG_INF,
     moves |-> <<>>, hash_key |-> None, stand_pat |-> 0, in_check |-> FALSE,
     n |-> 0, val |-> 0]

Top == stack[Len(stack)]
Caller == stack[Len(stack) - 1]
SetTop(f) == [stack EXCEPT ![Len(stack)] = f]
Ret(f, v) == [f EXCEPT !.pc = "ret", !.val = v]
Running == pc \notin {"idle", "done"}
TimeUp == is_time_exceeded(elapsed, time_limit)

\* The locals of choose_move at its first loop.
LocalsKeptOnInstance(tier, b) ==
    [depth |-> IF tier \in IDTiers THEN 1 ELSE max_depth(tier),
     best_move |-> IF result = None THEN None ELSE result[1].move,
     best_score |-> IF result = None THEN NEG_INF ELSE result[1].score, searched_depth |-> 0,
     iteration_best_move |-> None, iteration_best_score |-> NEG_INF,
     ordered |-> CASE tier \in {"level1", "level2"} -> LegalMoves(b)
                   [] tier = "ultimate" -> <<>>
                   [] OTHER -> order_moves(tier, b),
     ri |-> 1, total_nodes |-> 0, total_qnodes |-> 0, nodes |-> 0, qnodes |-> 0,
     scored |-> <<>>]

Locals(tier, b) ==
    [depth |-> IF tier \in IDTiers THEN 1 ELSE max_depth(tier),
     best_move |-> None, best_score |-> NEG_INF, searched_depth |-> 0,
     iteration_best_move |-> None, iteration_best_score |-> NEG_INF,
     ordered |-> CASE tier \in {"level1", "level2"} -> LegalMoves(b)
                   [] tier = "ultimate" -> <<>>
                   [] OTHER -> order_moves(tier, b),
     ri |-> 1, total_nodes |-> 0, total_qnodes |-> 0, nodes |-> 0, qnodes |-> 0,
     scored |-> <<>>]

(***************************************************************************)
(* MCTSEngine.  Values live in [-1, 1]; the model counts them in units of  *)
(* 1 / VALUE_SCALE, so a rollout value is an integer in -5000 .. 5000.     *)
(***************************************************************************)
VALUE_SCALE == 5000
VALUE_CLAMP == 4950
SCORE_HINT_SCALE == 10000
C_PUCT_TENTHS == 14
rollout_depth == 14
DEPTH_HINT_CAP == 8
SAMPLE_TOP_K == 4

\* Simulations whose statistics are tracked; later simulations of a call run
\* but leave the tree and the counter as they are.
MaxSims == 2

\* max(-0.99, min(0.99, score / 5000.0))
ClampValue(score) == Max(-VALUE_CLAMP, Min(VALUE_CLAMP, score))

\* The scores s with |s| <= 1000 for which int((s / 5000.0) * 5000) falls one
\* short of s in IEEE double arithmetic.
TruncLoss ==
    {3, 6, 12, 24, 29, 48, 58, 93, 96, 113, 116, 163, 169, 186, 192, 209, 215,
     226, 232, 249, 255, 321, 326, 338, 355, 372, 384, 389, 401, 418, 430, 435,
     447, 452, 464, 481, 493, 498, 510, 642, 647, 652, 676, 681, 705, 710, 715,
     739, 744, 768, 773, 778, 797, 802, 807, 831, 836, 841, 860, 865, 870, 894,
     899, 904, 923, 928, 933, 957, 962, 967, 986, 991, 996}

\* int(value * 5000) of a value held as value5000 / 5000.0
score_centipawns(value5000) ==
    IF value5000 \in TruncLoss THEN value5000 - 1
    ELSE IF -value5000 \in TruncLoss THEN value5000 + 1
    ELSE value5000

\* int(x) of the quotient a / b, b > 0: truncation toward zero.
TruncDiv(a, b) == IF a >= 0 THEN a \div b ELSE -((-a) \div b)

\* MCTSNode.__init__; prior is 1 / prior_den (0.0 when prior_den = 0).
MCTSNode(b, prior_den) ==
    [board |-> b, prior_den |-> prior_den, children |-> <<>>,
     visit_count |-> 0, value_sum |-> 0]

\* MCTSNode.expand on the node at `at` of a tree (a function from the path of
\* moves below the root to the node).
expand(tree, at) ==
    LET node == tree[at]
        ordered == order_moves("mcts", node.board)
    IN  IF IsGameOver(node.board) \/ ordered = <<>> THEN tree
        ELSE [p \in {Append(at, ordered[i]) : i \in 1 .. Len(ordered)} |->
                MCTSNode(Push(node.board, p[Len(p)]), Len(ordered))]
             @@ [tree EXCEPT ![at].children = ordered]

\* floor(sqrt(x)) by bisection, lo * lo <= x < hi * hi.
RECURSIVE ISqrt(_, _, _)
ISqrt(x, lo, hi) ==
    IF hi - lo <= 1 THEN lo
    ELSE LET mid == (lo + hi) \div 2
         IN  IF mid * mid <= x THEN ISqrt(x, mid, hi) ELSE ISqrt(x, lo, mid)

\* math.sqrt(visit_count + 1) in thousandths.
SQRT_UNIT == 1000
SqrtTable == [n \in 1 .. MaxSims + 2 |-> ISqrt(n * SQRT_UNIT * SQRT_UNIT, 0, 46340)]

\* child.value + c_puct * child.prior * sqrt_visits / (1 + child.visit_count),
\* in units of 1 / (VALUE_SCALE * SQRT_UNIT), rounded down.
puct(parent, child) ==
    (IF child.visit_count = 0 THEN 0
     ELSE (child.value_sum * SQRT_UNIT) \div child.visit_count)
    + (VALUE_SCALE * C_PUCT_TENTHS * SqrtTable[parent.visit_count + 1])
        \div (10 * child.prior_den * (1 + child.visit_count))

\* MCTSNode.select: the first child of maximal score, as a path.
RECURSIVE SelectFrom(_, _, _, _)
SelectFrom(tree, at, rest, best) ==
    IF rest = <<>> THEN best
    ELSE LET here == Append(at, Head(rest))
         IN  SelectFrom(tree, at, Tail(rest),
                IF best = None \/ puct(tree[at], tree[here]) > puct(tree[at], tree[best[1]])
                THEN <<here>> ELSE best)

select(tree, at) == SelectFrom(tree, at, tree[at].children, None)[1]

\* a.value > b.value, value = value_sum / visit_count (0.0 when unvisited)
ValueLT(a, b) ==
    a.value_sum * (IF b.visit_count = 0 THEN 1 ELSE b.visit_count)
        * (IF a.visit_count = 0 THEN 0 ELSE 1)
    < b.value_sum * (IF a.visit_count = 0 THEN 1 ELSE a.visit_count)
        * (IF b.visit_count = 0 THEN 0 ELSE 1)

ValueGT(a, b) ==
    a.value_sum * (IF b.visit_count = 0 THEN 1 ELSE b.visit_count)
        * (IF a.visit_count = 0 THEN 0 ELSE 1)
    > b.value_sum * (IF a.visit_count = 0 THEN 1 ELSE a.visit_count)
        * (IF b.visit_count = 0 THEN 0 ELSE 1)

\* MCTSEngine._best_move: highest visit count, ties by value, first wins.
RECURSIVE BestFrom(_, _, _)
BestFrom(tree, rest, best) ==
    IF rest = <<>> THEN best
    ELSE LET child == tree[<<Head(rest)>>]
         IN  BestFrom(tree, Tail(rest),
                IF \/ best = None
                   \/ child.visit_count > tree[<<best[1]>>].visit_count
                   \/ /\ child.visit_count = tree[<<best[1]>>].visit_count
                      /\ ValueGT(child, tree[<<best[1]>>])
                THEN <<Head(rest)>> ELSE best)

best_move(tree) == BestFrom(tree, tree[<<>>].children, None)

\* MCTSEngine._sample_move: the moves random.choice draws from.
sample_moves(b) ==
    LET ordered == order_moves("mcts", b)
        top_k == Max(1, Min(SAMPLE_TOP_K, Len(ordered)))
    IN  {ordered[i] : i \in 1 .. top_k}

\* The score a table hit turns into: probes are made at depth 0 with the window
\* (-1_000_000, 1_000_000).
probe_leaf(table, b) == Probe(table, Here(b).key, 0, -WINDOW, WINDOW)

MctsLocals(b) ==
    [tree |-> expand((<<>> :> MCTSNode(b, 0)), <<>>), simulations_run |-> 0,
     node |-> <<>>, path |-> <<>>, rollout_board |-> b, depth |-> 0, value |-> 0,
     rolled |-> FALSE]

\* choose_move up to its first loop.  Level1 returns at once when the position
\* has no legal move.
ChooseMoveOn(games, limits, max_calls) ==
    /\ engine \in Tiers
    /\ pc \in {"idle", "done"}
    /\ calls < max_calls
    /\ \E g \in games, limit \in limits :
        /\ UNCHANGED <<engine, trial, m2m, gm, tc>>
        /\ aborted' = 0
        /\ first' = IF calls = 1 /\ result # None /\ engine \in DetTiers /\ ~TimeUp
                    THEN <<[game |-> board.game, move |-> result[1].move,
                            score |-> result[1].score, depth |-> result[1].depth]>>
                    ELSE first
        /\ calls' = calls + 1
        /\ board' = Board(g)
        /\ time_limit' = limit
        /\ elapsed' = 0
        /\ tt' = ClearCache(engine, tt)
        /\ ttCall' = [i \in DOMAIN tt' |-> ttCall[i]]
        /\ hitFrom' = 0
        /\ completed' = None
        /\ cut' = FALSE
        /\ cached' = None
        /\ stack' = <<>>
        /\ cm' = IF engine = "mcts" THEN MctsLocals(Board(g))
                 ELSE Locals(engine, Board(g))
        /\ IF engine = "level1" /\ LegalMoves(Board(g)) = <<>>
           THEN /\ result' = <<SearchResult(None, 0, L1_DEPTH, 0, None)>>
                /\ pc' = "done"
           ELSE IF engine = "mcts" /\ IsGameOver(Board(g))
           THEN /\ result' = <<SearchResult(None, 0, 0, 0, None)>>
                /\ pc' = "done"
           ELSE /\ result' = None
                /\ pc' = CASE engine = "mcts" -> "mcts_loop"
                            [] engine \in IDTiers -> "depth"
                            [] OTHER -> "root"

ChooseMove == ChooseMoveOn(1 .. Len(Games), TimeLimits, MaxCalls)

\* The places where the running call reads the clock next.
AtClockRead ==
    \/ /\ engine \in IDTiers
       /\ \/ pc \in {"depth", "root"}
          \/ pc = "search" /\ Top.fn = "alphabeta" /\ Top.pc = "loop"
    \/ pc \in {"mcts_loop", "mcts_select", "mcts_rollout"}

\* The clock: perf_counter advances while a call with a deadline runs.  The
\* clock is observed only through is_time_exceeded, so a tick is taken where
\* the call is about to read it.
Tick ==
    /\ Running
    /\ AtClockRead
    /\ time_limit # None
    /\ elapsed < time_limit[1]
    /\ elapsed' = elapsed + 1
    /\ UNCHANGED <<tt, cached, engine, auxVars, calls, board, time_limit, pc, cm, stack,
                   result, histVars, iterVars>>

\* for depth in range(1, max_depth + 1): the deadline check that opens an
\* iteration of the iterative-deepening tiers.
DepthLoop ==
    /\ pc = "depth"
    /\ IF cm.depth > max_depth(engine) \/ TimeUp
       THEN pc' = "finish" /\ UNCHANGED <<cm, cut>>
       ELSE /\ pc' = "root"
            /\ cut' = FALSE
            /\ cm' = [cm EXCEPT !.iteration_best_move = cm.best_move,
                                !.iteration_best_score = NEG_INF,
                                !.ri = 1,
                                !.ordered = IF engine = "ultimate"
                                            THEN order_moves(engine, board) ELSE @]
    /\ UNCHANGED <<tt, cached, engine, auxVars, calls, board, time_limit, elapsed, stack,
                   result, histVars, completed>>

\* The commit at the end of an iteration (iterative-deepening tiers).
Commit(c) ==
    IF c.iteration_best_move # None
    THEN [c EXCEPT !.best_move = c.iteration_best_move,
                   !.best_score = c.iteration_best_score,
                   !.searched_depth = c.depth,
                   !.depth = c.depth + 1]
    ELSE [c EXCEPT !.depth = c.depth + 1]

\* for move in ordered: the next root move is pushed and searched, or the loop
\* ends (moves exhausted, or the deadline check breaks it).
RootLoop ==
    /\ pc = "root"
    /\ IF cm.ri > Len(cm.ordered) \/ (engine \in IDTiers /\ TimeUp)
       THEN /\ IF engine \in IDTiers
               THEN pc' = "depth" /\ cm' = Commit(cm)
               ELSE pc' = "finish" /\ UNCHANGED cm
            /\ cut' = (cut \/ cm.ri <= Len(cm.ordered))
            /\ completed' = IF engine \in IDTiers /\ ~cut'
                            THEN <<[move |-> cm.iteration_best_move,
                                    score |-> cm.iteration_best_score,
                                    depth |-> cm.depth]>>
                            ELSE completed
            /\ UNCHANGED <<board, stack>>
       ELSE /\ board' = Push(board, cm.ordered[cm.ri])
            /\ UNCHANGED iterVars
            /\ cm' = [cm EXCEPT !.nodes = 0, !.qnodes = 0]
            /\ stack' = <<Frame(IF engine = "level1" THEN "leaf" ELSE "alphabeta",
                                cm.depth - 1, -WINDOW, WINDOW, 0)>>
            /\ pc' = "search"
    /\ UNCHANGED <<tt, cached, engine, auxVars, calls, time_limit, elapsed, result, histVars>>

\* The root move's search has returned: board.pop() and the bookkeeping of the
\* loop body.
RootReturn ==
    /\ pc = "search"
    /\ Len(stack) = 1
    /\ Top.pc = "ret"
    /\ LET move == cm.ordered[cm.ri]
           score == -Top.val
           counted == CASE engine \in IDTiers -> cm.nodes
                        [] engine = "level1" -> 1
                        [] OTHER -> Top.n + 1
           c1 == [cm EXCEPT !.total_nodes = @ + counted,
                            !.total_qnodes = @ + cm.qnodes,
                            !.ri = @ + 1]
       IN  cm' = CASE engine \in IDTiers ->
                        IF score > cm.iteration_best_score
                        THEN [c1 EXCEPT !.iteration_best_score = score,
                                        !.iteration_best_move = <<move>>]
                        ELSE c1
                   [] engine = "level2" ->
                        [c1 EXCEPT !.scored = Append(@, <<move, score>>)]
                   [] OTHER ->
                        IF score > cm.best_score
                        THEN [c1 EXCEPT !.best_score = score, !.best_move = <<move>>]
                        ELSE c1
    /\ board' = Pop(board)
    /\ stack' = <<>>
    /\ pc' = "root"
    /\ UNCHANGED <<tt, cached, engine, auxVars, calls, time_limit, elapsed, result, histVars, iterVars>>

\* Level2: scored.sort(key=score, reverse=True); random.choice(scored[:top_n]).
Level2Choices(scored) ==
    LET key == [i \in 1 .. Len(scored) |-> scored[i][2]]
        order == SortDesc(<<>>, [i \in 1 .. Len(scored) |-> i], key)
        top_n == Min(L2_TOP_N, Len(scored))
    IN  {scored[order[i]] : i \in 1 .. top_n}

\* return SearchResult(...).  Ultimate's extra_info also carries time, nps and
\* qnode_ratio, which are wall-clock measurements and are left out.
Finish ==
    /\ pc = "finish"
    /\ pc' = "done"
    /\ \E r \in CASE engine = "level2" ->
                    IF cm.scored = <<>>
                    THEN {SearchResult(None, 0, cm.depth, cm.total_nodes, None)}
                    ELSE {SearchResult(<<c[1]>>, c[2], cm.depth, cm.total_nodes, None) :
                            c \in Level2Choices(cm.scored)}
                 [] engine = "ultimate" ->
                    {SearchResult(cm.best_move, cm.best_score, cm.searched_depth,
                        cm.total_nodes,
                        <<[depth |-> cm.searched_depth, nodes |-> cm.total_nodes,
                           qnodes |-> cm.total_qnodes]>>)}
                 [] engine \in IDTiers ->
                    {SearchResult(cm.best_move, cm.best_score, cm.searched_depth,
                        cm.total_nodes, None)}
                 [] OTHER ->
                    {SearchResult(cm.best_move, cm.best_score, cm.depth,
                        cm.total_nodes, None)} :
          result' = <<r>>
    /\ UNCHANGED <<tt, cached, engine, auxVars, calls, board, time_limit, elapsed, cm, stack,
                   histVars, iterVars>>

(***************************************************************************)
(* The recursive searches, one frame per activation.                       *)
(***************************************************************************)
Others == SubSeq(stack, 1, Len(stack) - 2)

\* The history of a store: the slot written is stamped with the running call.
Stamp(stamps, after, hash_key, entry) ==
    IF after[Index(hash_key)] = entry
    THEN (Index(hash_key) :> calls) @@ stamps
    ELSE stamps

\* alphabeta of the table-backed tiers up to its move loop: terminal test,
\* table probe, window narrowing, and the hand-over to quiescence at depth 0.
ABEnterTT ==
    /\ pc = "search"
    /\ engine \in TTFamily
    /\ Top.fn = "alphabeta"
    /\ Top.pc = "enter"
    /\ LET f == Top
           terminal_eval == evaluate_terminal_position(board)
           hash_key == Here(board).key
           hit == Probe(tt, hash_key, f.depth, f.alpha, f.beta)
           alpha == IF hit # None /\ hit[2] = LOWER_BOUND
                    THEN Max(f.alpha, hit[1]) ELSE f.alpha
           beta == IF hit # None /\ hit[2] = UPPER_BOUND
                   THEN Min(f.beta, hit[1]) ELSE f.beta
           g == [f EXCEPT !.alpha = alpha, !.beta = beta, !.hash_key = <<hash_key>>]
       IN  /\ cm' = IF engine = "ultimate" THEN [cm EXCEPT !.nodes = @ + 1] ELSE cm
           /\ IF terminal_eval # None
              THEN /\ stack' = SetTop(Ret(f, terminal_eval[1]))
                   /\ UNCHANGED <<cached, hitFrom>>
              ELSE /\ cached' = hit
                   /\ hitFrom' = IF hit # None THEN ttCall[Index(hash_key)] ELSE hitFrom
                   /\ stack' =
                        IF hit # None /\ (hit[2] = EXACT \/ alpha >= beta)
                        THEN SetTop(Ret(f, hit[1]))
                        ELSE IF f.depth = 0
                        THEN Append(SetTop([g EXCEPT !.pc = "qwait"]),
                                    Frame("quiescence", 0, alpha, beta, 0))
                        ELSE SetTop([g EXCEPT !.pc = "loop",
                                              !.moves = order_moves(engine, board)])
    /\ UNCHANGED <<tt, ttCall, engine, auxVars, calls, board, time_limit, elapsed, pc, result,
                   iterVars>>

\* Level3Engine.alphabeta, Level5Engine.alphabeta and Level2Engine.minimax up
\* to their move loops.
ABEnterPlain ==
    /\ pc = "search"
    /\ engine \in {"level2", "level3", "level5"}
    /\ Top.fn = "alphabeta"
    /\ Top.pc = "enter"
    /\ LET f == Top
       IN  stack' =
             IF f.depth = 0 \/ IsGameOver(board)
             THEN IF engine = "level3"
                  THEN Append(SetTop([f EXCEPT !.pc = "qwait"]),
                              Frame("quiescence", 0, f.alpha, f.beta, 0))
                  ELSE SetTop([Ret(f, Evaluate(engine, board)) EXCEPT !.n = 1])
             ELSE SetTop([f EXCEPT !.pc = "loop",
                                   !.moves = IF engine = "level2"
                                             THEN LegalMoves(board)
                                             ELSE order_moves(engine, board)])
    /\ UNCHANGED <<tt, cached, engine, auxVars, calls, board, time_limit, elapsed, pc, cm,
                   result, histVars, iterVars>>

\* The body of Level1's loop between push and pop.
LeafEval ==
    /\ pc = "search"
    /\ Top.fn = "leaf"
    /\ Top.pc = "enter"
    /\ LET terminal_eval == evaluate_terminal_position(board)
       IN  stack' = SetTop(Ret(Top, IF terminal_eval # None THEN terminal_eval[1]
                                    ELSE Evaluate(engine, board)))
    /\ UNCHANGED <<tt, cached, engine, auxVars, calls, board, time_limit, elapsed, pc, cm,
                   result, histVars, iterVars>>

\* for move in moves: deadline check (iterative-deepening tiers), push, recurse.
ABLoop ==
    /\ pc = "search"
    /\ Top.fn = "alphabeta"
    /\ Top.pc = "loop"
    /\ LET f == Top
       IN  IF f.moves = <<>> \/ (engine \in IDTiers /\ TimeUp)
           THEN /\ stack' = SetTop([f EXCEPT !.pc = "tail"])
                /\ cut' = (cut \/ f.moves # <<>>)
                /\ UNCHANGED board
           ELSE /\ board' = Push(board, Head(f.moves))
                /\ UNCHANGED cut
                /\ stack' = Append(SetTop([f EXCEPT !.pc = "wait", !.moves = Tail(@)]),
                                   Frame("alphabeta", f.depth - 1, -f.beta, -f.alpha, 0))
    /\ UNCHANGED <<tt, cached, engine, auxVars, calls, time_limit, elapsed, pc, cm, result,
                   histVars, completed>>

\* if alpha >= beta: break.  Level2's minimax has no window.
CutoffOffByOne(tier, alpha, beta) == tier # "level2" /\ alpha + 1 >= beta
Cutoff(tier, alpha, beta) == tier # "level2" /\ alpha >= beta

\* The recursive call has returned: pop, fold the score in, test the cutoff.
ABReturn ==
    /\ pc = "search"
    /\ Len(stack) >= 2
    /\ Top.pc = "ret"
    /\ Caller.fn = "alphabeta"
    /\ Caller.pc = "wait"
    /\ LET p == Caller
           score == -Top.val
           best_score == Max(p.best, score)
           alpha == IF engine = "level2" THEN p.alpha ELSE Max(p.alpha, score)
           cutoff == Cutoff(engine, alpha, p.beta)
       IN  stack' = Append(Others,
                           [p EXCEPT !.best = best_score, !.alpha = alpha,
                                     !.n = p.n + Top.n + 1,
                                     !.pc = IF cutoff THEN "tail" ELSE "loop"])
    /\ board' = Pop(board)
    /\ UNCHANGED <<tt, cached, engine, auxVars, calls, time_limit, elapsed, pc, cm, result,
                   histVars, iterVars>>

\* quiescence has returned to the alphabeta that called it at depth 0.
ABQuiesced ==
    /\ pc = "search"
    /\ Len(stack) >= 2
    /\ Top.pc = "ret"
    /\ Caller.fn = "alphabeta"
    /\ Caller.pc = "qwait"
    /\ stack' = Append(Others,
                       IF engine = "level3" THEN Ret(Caller, Top.val)
                       ELSE [Caller EXCEPT !.best = Top.val, !.pc = "store"])
    /\ UNCHANGED <<tt, cached, engine, auxVars, calls, board, time_limit, elapsed, pc, cm,
                   result, histVars, iterVars>>

StoreFlag(score, original_alpha, beta) ==
    IF score <= original_alpha THEN UPPER_BOUND
    ELSE IF score >= beta THEN LOWER_BOUND
    ELSE EXACT

\* The end of alphabeta: node count, table store, return.
ABExit ==
    /\ pc = "search"
    /\ Top.fn = "alphabeta"
    /\ Top.pc \in {"tail", "store"}
    /\ LET f == Top
           score == IF engine = "level3" THEN f.alpha ELSE f.best
           flag == StoreFlag(score, f.original_alpha, f.beta)
       IN  /\ cm' = IF f.pc = "tail" /\ engine \in {"level3", "level3s", "level4"}
                    THEN [cm EXCEPT !.nodes = @ + 1] ELSE cm
           /\ IF engine \in TTFamily
              THEN /\ tt' = Store(tt, f.hash_key[1], score, f.depth, flag)
                   /\ ttCall' = Stamp(ttCall, tt', f.hash_key[1],
                                      TTEntry(f.hash_key[1], score, f.depth, flag))
              ELSE UNCHANGED <<tt, ttCall>>
           /\ stack' = SetTop(Ret(f, score))
    /\ UNCHANGED <<cached, hitFrom, engine, auxVars, calls, board, time_limit, elapsed, pc,
                   result, iterVars>>

(***************************************************************************)
(* Quiescence.                                                             *)
(***************************************************************************)
qdepth_limit == 8
qnode_limit == 20000
delta_margin == 90
Q_PROMOTION_BONUS == 2000
Q_CHECK_BONUS == 300
SAFE_CHECK_QDEPTH == 4

promo_gain(m) == IF m.promotion > 0 THEN m.promotion - PAWN_VALUE ELSE 0

\* UltimateEngine._see
see(m) == (IF m.capture THEN m.captured ELSE 0) + promo_gain(m) - m.mover

\* UltimateEngine._max_gain
max_gain(m) == (IF m.capture THEN m.captured ELSE 0) + promo_gain(m)

\* UltimateEngine._is_losing_capture
is_losing_capture(m) == m.capture /\ see(m) < 0

\* UltimateEngine._is_promotion_threat
is_promotion_threat(m) == m.threat

\* UltimateEngine._safe_check: a capture, or the answer read between a push
\* and the matching pop of the move.
safe_check(b, move) ==
    \/ MoveData(b, move).capture
    \/ LET after == Push(b, move)
       IN  MoveData(Pop(after), move).safe

\* UltimateEngine._generate_q_moves
generate_q_moves(b, in_check, qdepth) ==
    LET Tactical(move) ==
            LET m == MoveData(b, move)
            IN  \/ m.capture \/ m.promotion > 0
                \/ (m.check /\ qdepth < SAFE_CHECK_QDEPTH /\ safe_check(b, move))
                \/ is_promotion_threat(m)
    IN  IF in_check THEN LegalMoves(b) ELSE SelectSeq(LegalMoves(b), Tactical)

\* UltimateEngine._order_q_moves
order_q_moves(b, moves) ==
    LET score(m) ==
            (IF m.promotion > 0 THEN Q_PROMOTION_BONUS + m.promotion ELSE 0)
            + (IF m.capture THEN 10 * m.captured - m.mover + see(m) ELSE 0)
            + (IF m.check THEN Q_CHECK_BONUS ELSE 0)
        key == [i \in 1 .. Len(Here(b).moves) |-> score(MoveData(b, i))]
    IN  SortDesc(<<>>, moves, key)

\* The moves a quiescence node loops over: every tier but Ultimate skips the
\* non-captures of order_moves with `continue`.
\* A quiescence that follows every legal move.
QMovesAll(tier, b, in_check, qdepth) == order_moves(tier, b)

q_moves(tier, b, in_check, qdepth) ==
    LET IsCapture(move) == MoveData(b, move).capture
    IN  IF tier = "ultimate"
        THEN order_q_moves(b, generate_q_moves(b, in_check, qdepth))
        ELSE SelectSeq(order_moves(tier, b), IsCapture)

\* The per-move filters of UltimateEngine.quiescence when not in check.
q_pruned(b, f, move) ==
    LET m == MoveData(b, move)
    IN  \/ is_losing_capture(m)
        \/ f.stand_pat + max_gain(m) + delta_margin <= f.alpha
        \/ (m.check /\ ~safe_check(b, move))

\* A quiescence that counted its nodes in qnodes only.
CountQNodeOnly(tier, c) ==
    [c EXCEPT !.qnodes = IF tier = "ultimate" THEN @ + 1 ELSE @]

\* quiescence: nodes[0] += 1, and qnodes[0] += 1 in Ultimate.
CountQNode(tier, c) ==
    [c EXCEPT !.nodes = @ + 1,
              !.qnodes = IF tier = "ultimate" THEN @ + 1 ELSE @]

\* quiescence up to its move loop: terminal test (table-backed tiers), stand
\* pat, node counts, the hard caps of Ultimate.
QEnter ==
    /\ pc = "search"
    /\ Top.fn = "quiescence"
    /\ Top.pc = "enter"
    /\ LET f == Top
           terminal_eval == IF engine \in TTFamily
                            THEN evaluate_terminal_position(board) ELSE None
           stand_pat == Evaluate(engine, board)
           alpha == Max(f.alpha, stand_pat)
           counted == CountQNode(engine, cm)
           in_check == IsCheck(board)
           moves == q_moves(engine, board, in_check, f.qdepth)
       IN  /\ cm' = counted
           /\ stack' = SetTop(
                IF terminal_eval # None THEN Ret(f, terminal_eval[1])
                ELSE IF stand_pat >= f.beta THEN Ret(f, f.beta)
                ELSE IF engine = "ultimate"
                        /\ (f.qdepth >= qdepth_limit \/ counted.qnodes >= qnode_limit)
                     THEN Ret(f, alpha)
                ELSE IF moves = <<>> THEN Ret(f, alpha)
                ELSE [f EXCEPT !.pc = "loop", !.alpha = alpha, !.stand_pat = stand_pat,
                               !.in_check = in_check, !.moves = moves])
    /\ UNCHANGED <<tt, cached, engine, auxVars, calls, board, time_limit, elapsed, pc, result,
                   histVars, iterVars>>

\* for move in moves: filter (Ultimate), push, recurse.
QLoop ==
    /\ pc = "search"
    /\ Top.fn = "quiescence"
    /\ Top.pc = "loop"
    /\ LET f == Top
       IN  IF f.moves = <<>>
           THEN stack' = SetTop(Ret(f, f.alpha)) /\ UNCHANGED board
           ELSE IF engine = "ultimate" /\ ~f.in_check /\ q_pruned(board, f, Head(f.moves))
           THEN stack' = SetTop([f EXCEPT !.moves = Tail(@)]) /\ UNCHANGED board
           ELSE /\ board' = Push(board, Head(f.moves))
                /\ stack' = Append(SetTop([f EXCEPT !.pc = "wait", !.moves = Tail(@)]),
                                   Frame("quiescence", 0, -f.beta, -f.alpha, f.qdepth + 1))
    /\ UNCHANGED <<tt, cached, engine, auxVars, calls, time_limit, elapsed, pc, cm, result,
                   histVars, iterVars>>

\* The recursive quiescence call has returned: pop, cutoff, raise alpha.
QReturn ==
    /\ pc = "search"
    /\ Len(stack) >= 2
    /\ Top.pc = "ret"
    /\ Caller.fn = "quiescence"
    /\ Caller.pc = "wait"
    /\ LET p == Caller
           score == -Top.val
           alpha == Max(p.alpha, score)
       IN  stack' = Append(Others,
                IF score >= p.beta THEN Ret(p, p.beta)
                ELSE IF engine = "ultimate" /\ cm.qnodes >= qnode_limit THEN Ret(p, alpha)
                ELSE [p EXCEPT !.alpha = alpha, !.pc = "loop"])
    /\ board' = Pop(board)
    /\ UNCHANGED <<tt, cached, engine, auxVars, calls, time_limit, elapsed, pc, cm, result,
                   histVars, iterVars>>

(***************************************************************************)
(* MCTSEngine.choose_move and _simulate, step by step.                     *)
(***************************************************************************)
\* The SearchResult of MCTSEngine.choose_move after the simulation loop.
MctsResult(c) ==
    LET move == best_move(c.tree)
        extra_info == <<[simulations |-> c.simulations_run,
                         avg_rollouts_per_move |-> c.simulations_run]>>
    IN  IF move = None
        THEN SearchResult(None, 0, 1, c.simulations_run, extra_info)
        ELSE LET best_child == c.tree[<<move[1]>>]
                 score_hint == IF best_child.visit_count = 0 THEN 0
                               ELSE TruncDiv((SCORE_HINT_SCALE \div VALUE_SCALE)
                                                * best_child.value_sum,
                                             best_child.visit_count)
             IN  SearchResult(move, score_hint, Min(rollout_depth, DEPTH_HINT_CAP),
                              c.simulations_run, extra_info)

Tracked(c) == c.simulations_run < MaxSims
Bump(c) == IF Tracked(c) THEN [c EXCEPT !.simulations_run = @ + 1] ELSE c

\* while not is_time_exceeded(start, time_limit): start a simulation, or leave
\* the loop and return the result.
MctsLoop ==
    /\ pc = "mcts_loop"
    /\ IF TimeUp
       THEN /\ pc' = "done"
            /\ result' = <<MctsResult(cm)>>
            /\ UNCHANGED cm
       ELSE /\ pc' = "mcts_select"
            /\ cm' = [cm EXCEPT !.node = <<>>, !.path = << <<>> >>, !.rolled = FALSE]
            /\ UNCHANGED result
    /\ UNCHANGED <<tt, cached, engine, auxVars, calls, board, time_limit, elapsed, stack,
                   histVars, iterVars>>

\* _simulate, selection: one turn of the descent (with its deadline return),
\* or the expansion of the node reached.
MctsSelect ==
    /\ pc = "mcts_select"
    /\ IF cm.tree[cm.node].children # <<>>
       THEN IF TimeUp
            THEN /\ pc' = "mcts_loop"
                 /\ cm' = Bump(cm)
                 /\ aborted' = IF Tracked(cm) THEN aborted + 1 ELSE aborted
            ELSE /\ pc' = pc
                 /\ cm' = [cm EXCEPT !.node = select(cm.tree, cm.node),
                                     !.path = Append(@, select(cm.tree, cm.node))]
                 /\ UNCHANGED aborted
       ELSE /\ pc' = "mcts_eval"
            /\ cm' = IF Tracked(cm) THEN [cm EXCEPT !.tree = expand(@, cm.node)] ELSE cm
            /\ UNCHANGED aborted
    /\ UNCHANGED <<tt, cached, engine, trial, first, m2m, gm, tc, calls, board, time_limit, elapsed, stack,
                   result, histVars, iterVars>>

\* _evaluate_leaf up to the rollout: terminal values, the table probe.
MctsEvalLeaf ==
    /\ pc = "mcts_eval"
    /\ LET b == cm.tree[cm.node].board
           kind == Here(b).kind
           hit == probe_leaf(tt, b)
       IN  IF kind # "normal"
           THEN /\ cm' = [cm EXCEPT !.value = IF kind = "checkmate" THEN -VALUE_SCALE ELSE 0]
                /\ pc' = "mcts_backprop"
                /\ UNCHANGED <<cached, hitFrom>>
           ELSE /\ cached' = hit
                /\ IF hit # None
                   THEN /\ hitFrom' = ttCall[Index(Here(b).key)]
                        /\ cm' = [cm EXCEPT !.value = ClampValue(hit[1])]
                        /\ pc' = "mcts_backprop"
                   ELSE /\ UNCHANGED hitFrom
                        /\ cm' = [cm EXCEPT !.rollout_board = b, !.depth = 0,
                                            !.rolled = TRUE]
                        /\ pc' = "mcts_rollout"
    /\ UNCHANGED <<tt, ttCall, engine, auxVars, calls, board, time_limit, elapsed, stack, result,
                   iterVars>>

\* _rollout, the head of one turn of its loop: loop test, deadline, probe.
MctsRollout ==
    /\ pc = "mcts_rollout"
    /\ LET b == cm.rollout_board
           hit == probe_leaf(tt, b)
       IN  IF cm.depth < rollout_depth /\ ~IsGameOver(b) /\ ~TimeUp
           THEN /\ cached' = hit
                /\ IF hit # None
                   THEN /\ hitFrom' = ttCall[Index(Here(b).key)]
                        /\ cm' = [cm EXCEPT !.value = ClampValue(hit[1])]
                        /\ pc' = "mcts_backprop"
                   ELSE /\ pc' = IF LegalMoves(b) = <<>> THEN "mcts_rollout_end"
                                 ELSE "mcts_sample"
                        /\ UNCHANGED <<hitFrom, cm>>
           ELSE /\ pc' = "mcts_rollout_end"
                /\ UNCHANGED <<cached, hitFrom, cm>>
    /\ UNCHANGED <<tt, ttCall, engine, auxVars, calls, board, time_limit, elapsed, stack, result,
                   iterVars>>

\* _rollout: move = self._sample_move(board, moves); board.push(move)
MctsSample ==
    /\ pc = "mcts_sample"
    /\ \E move \in sample_moves(cm.rollout_board) :
          cm' = [cm EXCEPT !.rollout_board = Push(@, move), !.depth = @ + 1]
    /\ pc' = "mcts_rollout"
    /\ UNCHANGED <<tt, cached, engine, auxVars, calls, board, time_limit, elapsed, stack,
                   result, histVars, iterVars>>

\* _rollout after its loop: terminal values, probe, evaluate and cache.
MctsRolloutEnd ==
    /\ pc = "mcts_rollout_end"
    /\ LET b == cm.rollout_board
           kind == Here(b).kind
           hash_key == Here(b).key
           hit == probe_leaf(tt, b)
           eval_score == Evaluate(engine, b)
       IN  IF kind \in {"checkmate", "stalemate", "insufficient"}
           THEN /\ cm' = [cm EXCEPT !.value = IF kind = "checkmate" THEN -VALUE_SCALE ELSE 0]
                /\ UNCHANGED <<tt, cached, histVars>>
           ELSE /\ cached' = hit
                /\ IF hit # None
                   THEN /\ hitFrom' = ttCall[Index(hash_key)]
                        /\ cm' = [cm EXCEPT !.value = ClampValue(hit[1])]
                        /\ UNCHANGED <<tt, ttCall>>
                   ELSE /\ tt' = Store(tt, hash_key, eval_score, 0, EXACT)
                        /\ ttCall' = Stamp(ttCall, tt', hash_key,
                                           TTEntry(hash_key, eval_score, 0, EXACT))
                        /\ cm' = [cm EXCEPT !.value = ClampValue(eval_score)]
                        /\ UNCHANGED hitFrom
    /\ pc' = "mcts_backprop"
    /\ UNCHANGED <<engine, auxVars, calls, board, time_limit, elapsed, stack, result, iterVars>>

\* for n in reversed(path): the leaf takes value, its parent -value, and so on.
BackpropagateSkipsLeaf(tree, path, value) ==
    [p \in DOMAIN tree |->
        IF \E i \in 1 .. Len(path) - 1 : path[i] = p
        THEN [tree[p] EXCEPT !.visit_count = @ + 1,
                             !.value_sum = @ + (IF (Len(path) - 1 - Len(p)) % 2 = 0
                                                THEN value ELSE -value)]
        ELSE tree[p]]

\* A backpropagation that adds the same value at every level.
BackpropagateSameSign(tree, path, value) ==
    [p \in DOMAIN tree |->
        IF \E i \in 1 .. Len(path) : path[i] = p
        THEN [tree[p] EXCEPT !.visit_count = @ + 1, !.value_sum = @ + value]
        ELSE tree[p]]

backpropagate(tree, path, value) ==
    [p \in DOMAIN tree |->
        IF \E i \in 1 .. Len(path) : path[i] = p
        THEN [tree[p] EXCEPT !.visit_count = @ + 1,
                             !.value_sum = @ + (IF (Len(path) - 1 - Len(p)) % 2 = 0
                                                THEN value ELSE -value)]
        ELSE tree[p]]

\* The end of _evaluate_leaf (the rollout's value is cached under the leaf's
\* key), the backpropagation, and simulations_run += 1.
MctsBackprop ==
    /\ pc = "mcts_backprop"
    /\ LET hash_key == Here(cm.tree[cm.node].board).key
           score == score_centipawns(cm.value)
       IN  IF cm.rolled
           THEN /\ tt' = Store(tt, hash_key, score, 0, EXACT)
                /\ ttCall' = Stamp(ttCall, tt', hash_key,
                                   TTEntry(hash_key, score, 0, EXACT))
           ELSE UNCHANGED <<tt, ttCall>>
    /\ cm' = IF Tracked(cm)
             THEN Bump([cm EXCEPT !.tree = backpropagate(@, cm.path, cm.value)])
             ELSE cm
    /\ pc' = "mcts_loop"
    /\ UNCHANGED <<cached, hitFrom, engine, auxVars, calls, board, time_limit, elapsed, stack,
                   result, iterVars>>

(***************************************************************************)
(* Spec: one engine instance answering choose_move calls.                  *)
(***************************************************************************)
Init ==
    /\ engine \in Tiers
    /\ tt = <<>>
    /\ cached = None
    /\ calls = 0
    /\ board = Board(1)
    /\ time_limit = None
    /\ elapsed = 0
    /\ pc = "idle"
    /\ cm = None
    /\ stack = <<>>
    /\ result = None
    /\ ttCall = <<>>
    /\ hitFrom = 0
    /\ completed = None
    /\ cut = FALSE
    /\ trial = None
    /\ aborted = 0
    /\ first = None
    /\ m2m = NoGames
    /\ gm = NoSessions
    /\ tc = NoTasks

Next ==
    \/ ChooseMove
    \/ Tick
    \/ DepthLoop
    \/ RootLoop
    \/ RootReturn
    \/ Finish
    \/ ABEnterTT
    \/ ABEnterPlain
    \/ LeafEval
    \/ ABLoop
    \/ ABReturn
    \/ ABQuiesced
    \/ ABExit
    \/ QEnter
    \/ QLoop
    \/ QReturn
    \/ MctsLoop
    \/ MctsSelect
    \/ MctsEvalLeaf
    \/ MctsRollout
    \/ MctsSample
    \/ MctsRolloutEnd
    \/ MctsBackprop

Spec == Init /\ [][Next]_vars

(***************************************************************************)
(* SpecTT: a table under arbitrary store / probe / clear calls.            *)
(***************************************************************************)
MaxScore == 1
MaxDepth == 1

SampleScores == 0 .. MaxScore
SampleDepths == 0 .. MaxDepth

InitTT ==
    /\ tt = <<>>
    /\ cached = None
    /\ engine = "none"
    /\ calls = 0
    /\ board = Board(1)
    /\ time_limit = None
    /\ elapsed = 0
    /\ pc = "idle"
    /\ cm = None
    /\ stack = <<>>
    /\ result = None
    /\ ttCall = <<>>
    /\ hitFrom = 0
    /\ completed = None
    /\ cut = FALSE
    /\ trial = None
    /\ aborted = 0
    /\ first = None
    /\ m2m = NoGames
    /\ gm = NoSessions
    /\ tc = NoTasks

TTStore ==
    \E k \in SampleKeys, s \in SampleScores, d \in SampleDepths, f \in Flags :
        /\ tt' = Store(tt, k, s, d, f)
        /\ UNCHANGED <<cached, searchVars, histVars, iterVars, auxVars>>

TTProbe ==
    \E k \in SampleKeys, d \in SampleDepths, a \in SampleScores, b \in SampleScores :
        /\ cached' = Probe(tt, k, d, a, b)
        /\ UNCHANGED <<tt, searchVars, histVars, iterVars, auxVars>>

TTClear ==
    /\ tt' = Clear(tt)
    /\ UNCHANGED <<cached, searchVars, histVars, iterVars, auxVars>>

NextTT == TTStore \/ TTProbe \/ TTClear

SpecTT == InitTT /\ [][NextTT]_vars

Resident(k) == Index(k) \in DOMAIN tt /\ tt[Index(k)].hash_key = k

\* C2: while the slot of key k holds (k, s, d, EXACT), probe(k, d', alpha, beta)
\* returns (s, EXACT) for every d' <= d and every window, and nothing for d' > d.
C2_ExactHit ==
    \A k \in SampleKeys :
        (Resident(k) /\ tt[Index(k)].flag = EXACT) =>
            \A d \in SampleDepths, a \in SampleScores, b \in SampleScores :
                Probe(tt, k, d, a, b) =
                    IF d <= tt[Index(k)].depth
                    THEN <<tt[Index(k)].score, EXACT>> ELSE None

\* A probe has returned the score of a resident EXACT entry stored at depth >= 1.
C2_Witness ==
    \E k \in SampleKeys :
        /\ Resident(k)
        /\ tt[Index(k)].flag = EXACT
        /\ tt[Index(k)].depth >= 1
        /\ cached = <<tt[Index(k)].score, EXACT>>

\* C3: probe returns a LOWER_BOUND entry only when its score >= beta and an
\* UPPER_BOUND entry only when its score <= alpha; a bound entry that fails its
\* condition yields no result whatever the stored depth.
C3_BoundLaws ==
    \A k \in SampleKeys, d \in SampleDepths, a \in SampleScores, b \in SampleScores :
        LET r == Probe(tt, k, d, a, b)
            e == tt[Index(k)]
        IN  Resident(k) =>
              /\ (r # None /\ r[2] = LOWER_BOUND) =>
                     (e.flag = LOWER_BOUND /\ r[1] = e.score /\ e.score >= b)
              /\ (r # None /\ r[2] = UPPER_BOUND) =>
                     (e.flag = UPPER_BOUND /\ r[1] = e.score /\ e.score <= a)
              /\ (e.flag = LOWER_BOUND /\ e.score < b) => r = None
              /\ (e.flag = UPPER_BOUND /\ e.score > a) => r = None

\* A probe has returned a bound entry that is resident.
C3_Witness ==
    \E k \in SampleKeys :
        /\ Resident(k)
        /\ tt[Index(k)].flag \in {LOWER_BOUND, UPPER_BOUND}
        /\ cached = <<tt[Index(k)].score, tt[Index(k)].flag>>

\* C4: store(k, s, d, f) writes the slot of k when it is empty, when the resident
\* entry has key k, or when d >= the resident depth; otherwise the table is
\* unchanged (the deeper of two colliding keys survives, ties favour the newcomer).
C4_Replacement ==
    \A k \in SampleKeys, s \in SampleScores, d \in SampleDepths, f \in Flags :
        LET idx == Index(k)
            after == Store(tt, k, s, d, f)
        IN  IF idx \notin DOMAIN tt \/ tt[idx].hash_key = k \/ d >= tt[idx].depth
            THEN /\ DOMAIN after = DOMAIN tt \cup {idx}
                 /\ after[idx] = TTEntry(k, s, d, f)
                 /\ \A j \in DOMAIN tt \ {idx} : after[j] = tt[j]
            ELSE after = tt

\* Both slots are written, one of them by a key that collides with another
\* sample key, at a depth where a shallower store of the other key is refused.
C4_Witness ==
    /\ DOMAIN tt = {0, 1}
    /\ tt[0].hash_key = TTSize
    /\ tt[0].depth >= 1

\* C5: a probe for k2 returns nothing whenever the slot of k2 holds an entry
\* stored under a different key, even an EXACT one that is deep enough.
C5_KeyVerified ==
    \A k2 \in SampleKeys, d \in SampleDepths, a \in SampleScores, b \in SampleScores :
        (Index(k2) \in DOMAIN tt /\ tt[Index(k2)].hash_key # k2) =>
            Probe(tt, k2, d, a, b) = None

\* The slot holds an EXACT entry of maximal depth under a colliding key and
\* the last probe missed.
C5_Witness ==
    \E k2 \in SampleKeys :
        /\ Index(k2) \in DOMAIN tt
        /\ tt[Index(k2)].hash_key # k2
        /\ tt[Index(k2)].flag = EXACT
        /\ tt[Index(k2)].depth = MaxDepth
        /\ cached = None

(***************************************************************************)
(* FairSpec: Spec with the fairness of a synchronous call.  The thread     *)
(* that runs choose_move keeps executing it (weak fairness of the engine's *)
(* steps), and the clock keeps advancing, so a call that reads the clock   *)
(* again and again eventually reads a later time (strong fairness of Tick).*)
(***************************************************************************)
EngineStep ==
    \/ DepthLoop \/ RootLoop \/ RootReturn \/ Finish
    \/ ABEnterTT \/ ABEnterPlain \/ LeafEval \/ ABLoop \/ ABReturn \/ ABQuiesced
    \/ ABExit \/ QEnter \/ QLoop \/ QReturn
    \/ MctsLoop \/ MctsSelect \/ MctsEvalLeaf \/ MctsRollout \/ MctsSample
    \/ MctsRolloutEnd \/ MctsBackprop

FairSpec == Spec /\ WF_vars(EngineStep) /\ SF_vars(Tick)

(***************************************************************************)
(* Claims about choose_move.                                               *)
(***************************************************************************)
Done == pc = "done"
Returned == result[1]
RootPosition == Root(board.game)

\* C1: in the iterative-deepening tiers, when the deadline expired while an
\* iteration was in progress, the SearchResult returned carries the move, the
\* score and the depth of the last iteration that completed.
C1_KeepsCompleted ==
    (Done /\ engine \in IDTiers /\ cut /\ completed # None)
        => /\ Returned.move = completed[1].move
           /\ Returned.score = completed[1].score
           /\ Returned.depth = completed[1].depth

\* C6: across the choose_move calls on one engine instance, every probe that
\* hits returns an entry stored during the running call.
C6_NoStaleHit == hitFrom \in {0, calls}

C6_Witness == UsesTT(engine) /\ calls = 2 /\ hitFrom = 2

\* C7: when choose_move returns, the borrowed position has the side to move
\* and the move-stack depth it had when choose_move was called.
C7_BoardRestored == Done => (board.turn /\ Len(board.stack) = 0)

C7_Witness == Done /\ cut /\ engine = "ultimate" /\ Returned.nodes > 0

\* C8: every choose_move call eventually returns, whatever the tier and the
\* time_limit argument.
C8_Terminates == (pc \notin {"idle", "done"}) ~> Done

\* C9: on a position with no legal move choose_move returns move None with
\* score 0 or the position's terminal score.
C9_NoLegalMove ==
    (Done /\ RootPosition.moves = <<>>)
        => /\ Returned.move = None
           /\ Returned.score \in {0, evaluate_terminal_position(Board(board.game))[1]}

\* C10: from a position with a move that checkmates, Level3 and Ultimate
\* return a checkmating move when no deadline expires during the call.
MatingMoves(node) == {i \in 1 .. Len(node.moves) : node.moves[i].to.kind = "checkmate"}

C10_MateInOne ==
    (Done /\ engine \in {"level3", "ultimate"} /\ ~TimeUp /\ MatingMoves(RootPosition) # {})
        => /\ Returned.move # None
           /\ Returned.move[1] \in MatingMoves(RootPosition)

(***************************************************************************)
(* Level5Engine on the sample trees: one choose_move call per behaviour,   *)
(* on any of the trees, with no time limit.                                *)
(***************************************************************************)
InitAB ==
    /\ engine = "level5"
    /\ tt = <<>>
    /\ cached = None
    /\ calls = MaxCalls - 1
    /\ board = Board(1)
    /\ time_limit = None
    /\ elapsed = 0
    /\ pc = "idle"
    /\ cm = None
    /\ stack = <<>>
    /\ result = None
    /\ ttCall = <<>>
    /\ hitFrom = 0
    /\ completed = None
    /\ cut = FALSE
    /\ trial = None
    /\ aborted = 0
    /\ first = None
    /\ m2m = NoGames
    /\ gm = NoSessions
    /\ tc = NoTasks

ChooseMoveTree == ChooseMoveOn(TreeGames, {None}, MaxCalls)

NextAB ==
    \/ ChooseMoveTree
    \/ RootLoop
    \/ RootReturn
    \/ ABEnterPlain
    \/ ABLoop
    \/ ABReturn
    \/ ABExit
    \/ Finish

SpecAB == InitAB /\ [][NextAB]_vars

\* The reference: negamax without a window over the same tree, with the same
\* move order and the same leaf evaluator (the shape of Level2Engine.minimax):
\* <<best, nodes>>, nodes counted as Level5Engine counts them.
RECURSIVE Negamax(_, _, _)
Negamax(tier, b, depth) ==
    IF depth = 0 \/ IsGameOver(b) THEN <<Evaluate(tier, b), 1>>
    ELSE LET moves == order_moves(tier, b)
             RECURSIVE over(_, _, _)
             over(i, best, nodes) ==
                IF i > Len(moves) THEN <<best, nodes>>
                ELSE LET child == Negamax(tier, Push(b, moves[i]), depth - 1)
                     IN  over(i + 1, Max(best, -child[1]), nodes + child[2] + 1)
         IN  over(1, NEG_INF, 0)

\* The root of the reference: the first move, in search order, of the best
\* score.
NegamaxRoot(tier, b, depth) ==
    LET ordered == order_moves(tier, b)
        RECURSIVE over(_, _, _, _)
        over(i, bmove, bscore, total) ==
            IF i > Len(ordered)
            THEN [move |-> bmove, score |-> bscore, nodes |-> total]
            ELSE LET child == Negamax(tier, Push(b, ordered[i]), depth - 1)
                     score == -child[1]
                 IN  IF score > bscore
                     THEN over(i + 1, <<ordered[i]>>, score, total + child[2] + 1)
                     ELSE over(i + 1, bmove, bscore, total + child[2] + 1)
    IN  over(1, None, NEG_INF, 0)

\* C11: Level5Engine (depth 3, full root window, no time limit, no
\* quiescence) returns the best score and the best move of the unpruned
\* negamax over the same tree, for every sample tree.
C11_AlphaBetaIsNegamax ==
    (Done /\ engine = "level5")
        => LET ref == NegamaxRoot(engine, Board(board.game), L5_DEPTH)
           IN  /\ Returned.score = ref.score
               /\ Returned.move = ref.move
               /\ Returned.depth = L5_DEPTH

\* A search that pruned: it returned after visiting fewer nodes than the
\* unpruned search visits, and chose the move that is not first in the order.
C11_Witness ==
    /\ Done
    /\ engine = "level5"
    /\ board.game \in TreeGames
    /\ Returned.nodes < NegamaxRoot(engine, Board(board.game), L5_DEPTH).nodes
    /\ Returned.move = <<1>>

(***************************************************************************)
(* Claims about the Monte Carlo tree search.                               *)
(***************************************************************************)
\* The visit counts of the root's children, summed.
RECURSIVE SumVisits(_, _)
SumVisits(tree, moves) ==
    IF moves = <<>> THEN 0
    ELSE tree[<<Head(moves)>>].visit_count + SumVisits(tree, Tail(moves))

RootVisits(tree) == SumVisits(tree, tree[<<>>].children)

BetweenSimulations == engine = "mcts" /\ pc = "mcts_loop"

\* C12: between two simulations of MCTSEngine.choose_move, the visit counts of
\* the root's children sum to the number of simulations run minus those that
\* returned at the deadline check of the selection loop; and the
\* backpropagation of a simulation adds one visit to exactly one root child
\* and none to the others.
C12_VisitSum ==
    /\ [](BetweenSimulations
            => RootVisits(cm.tree) = cm.simulations_run - aborted)
    /\ [][(pc = "mcts_backprop" /\ Tracked(cm))
            => \E mv \in DOMAIN cm.tree[<<>>].children :
                 LET kids == cm.tree[<<>>].children
                 IN  /\ cm'.tree[<<kids[mv]>>].visit_count
                            = cm.tree[<<kids[mv]>>].visit_count + 1
                     /\ \A other \in DOMAIN kids : other # mv =>
                            cm'.tree[<<kids[other]>>].visit_count
                                = cm.tree[<<kids[other]>>].visit_count]_vars

\* One simulation returned at the deadline check and one ran to its end.
C12_Witness ==
    /\ BetweenSimulations
    /\ cm.simulations_run = 2
    /\ aborted = 1
    /\ RootVisits(cm.tree) = 1

(***************************************************************************)
(* MCTSEngine._best_move on its own: a root with MaxChildren children      *)
(* carrying any statistics a search can leave (an unvisited child has      *)
(* value_sum 0; values are counted in units of 1 / VALUE_SCALE).           *)
(***************************************************************************)
MaxVisits == 2
MaxChildren == 3

ChildStats ==
    {st \in [visit_count : 0 .. MaxVisits, value_sum : -MaxVisits .. MaxVisits] :
        st.value_sum <= st.visit_count /\ -st.value_sum <= st.visit_count}

\* The root, expanded, with the given statistics on its children.
RootWith(stats) ==
    LET moves == [i \in DOMAIN stats |-> i]
        root == [MCTSNode(Board(1), 0) EXCEPT !.children = moves]
    IN  (<<>> :> root)
        @@ [p \in {<<i>> : i \in DOMAIN stats} |->
                [MCTSNode(Push(Board(1), p[1]), Len(stats))
                    EXCEPT !.visit_count = stats[p[1]].visit_count,
                           !.value_sum = stats[p[1]].value_sum]]

InitBest ==
    /\ Init
    /\ engine = "mcts"

BestMoveTrial ==
    /\ trial = None
    /\ \E stats \in [1 .. MaxChildren -> ChildStats] :
        trial' = [fn |-> "_best_move", args |-> stats,
                  value |-> best_move(RootWith(stats))]
    /\ UNCHANGED <<ttVars, searchVars, histVars, iterVars, aborted, first, m2m, gm, tc>>

NextBest == BestMoveTrial

SpecBest == InitBest /\ [][NextBest]_vars

BestMoveApplied == trial # None /\ trial.fn = "_best_move"

\* C13: _best_move returns a root child of maximal visit count and, among
\* the children of that visit count, one of the highest mean value (equal
\* visit counts: the highest value_sum); so it returns no unvisited child
\* when some child has been visited.
C13_BestMove ==
    BestMoveApplied
        => /\ trial.value # None
           /\ LET stats == trial.args
                   chosen == stats[trial.value[1]]
               IN  /\ \A i \in DOMAIN stats :
                        /\ stats[i].visit_count <= chosen.visit_count
                        /\ stats[i].visit_count = chosen.visit_count
                             => stats[i].value_sum <= chosen.value_sum
                   /\ (\E i \in DOMAIN stats : stats[i].visit_count > 0)
                        => chosen.visit_count > 0

\* The first child is unvisited, two later children tie on visits, and the
\* last of them has the higher value.
C13_Witness ==
    /\ BestMoveApplied
    /\ trial.args[1].visit_count = 0
    /\ trial.args[2].visit_count = trial.args[3].visit_count
    /\ trial.args[2].value_sum < trial.args[3].value_sum
    /\ trial.value = <<3>>

(***************************************************************************)
(* The tiers that draw no random numbers, over one call more than Spec     *)
(* makes: a position can be searched first, and again after a search of    *)
(* another position (finished or cut by its deadline).                     *)
(***************************************************************************)
InitDet ==
    /\ Init
    /\ engine \in DetTiers

ChooseMoveAgain == ChooseMoveOn(1 .. Len(Games), TimeLimits, MaxCalls + 1)

NextDet ==
    \/ ChooseMoveAgain
    \/ Tick
    \/ DepthLoop
    \/ RootLoop
    \/ RootReturn
    \/ Finish
    \/ ABEnterTT
    \/ ABEnterPlain
    \/ LeafEval
    \/ ABLoop
    \/ ABReturn
    \/ ABQuiesced
    \/ ABExit
    \/ QEnter
    \/ QLoop
    \/ QReturn

SpecDet == InitDet /\ [][NextDet]_vars

\* C14: a call of Level1, Level5, Level3, Level4 or Ultimate during which no
\* deadline expired returns the move, score and depth that the first call of
\* the instance returned for the same position, whatever was searched in
\* between.
C14_Deterministic ==
    (Done /\ engine \in DetTiers /\ ~TimeUp /\ first # None
          /\ first[1].game = board.game)
        => /\ Returned.move = first[1].move
           /\ Returned.score = first[1].score
           /\ Returned.depth = first[1].depth

\* The third call of a table-using tier repeats the position of the first
\* after a second call, on another position, that its deadline cut.
C14_Witness ==
    /\ Done
    /\ UsesTT(engine) /\ engine \in DetTiers
    /\ ~TimeUp
    /\ calls = MaxCalls + 1
    /\ first # None
    /\ first[1].game = board.game
    /\ Returned.move # None
    /\ hitFrom = calls

(***************************************************************************)
(* The static evaluators, term by term.  A position is what evaluate reads *)
(* from the board:                                                         *)
(*   balance  - material plus piece-square bonus of the engine's tables,   *)
(*              White minus Black;                                         *)
(*   mob_w, mob_b - the number of legal moves of White, of Black;          *)
(*   castle_w, castle_b - has_castling_rights;                             *)
(*   halfmove_clock, and white: whether White is to move.                  *)
(* The move stack is empty and neither side is in check, so that the       *)
(* position with the other side to move is a position too; with an empty   *)
(* stack repetition_penalty is 0 and no repetition can be claimed.         *)
(***************************************************************************)
MOBILITY_WEIGHT == 2
CASTLING_BONUS == 20
U_CASTLING_BONUS == 5
NEAR_STALEMATE_MARGIN == 250
NEAR_STALEMATE_MOVES == 2
NEAR_STALEMATE_BIAS == 1200
FIFTY_MOVE_CLOCK == 80
FIFTY_MOVE_MARGIN == 200
FIFTY_MOVE_BIAS == 700

\* BaseEngine.drawish_bias
drawish_bias(P, current_eval) ==
    (IF /\ current_eval > NEAR_STALEMATE_MARGIN
        /\ (IF P.white THEN P.mob_w ELSE P.mob_b) <= NEAR_STALEMATE_MOVES
     THEN -NEAR_STALEMATE_BIAS ELSE 0)
    + (IF P.halfmove_clock >= FIFTY_MOVE_CLOCK /\ current_eval > FIFTY_MOVE_MARGIN
       THEN -FIFTY_MOVE_BIAS ELSE 0)

\* BaseEngine.evaluate
base_evaluate(P) ==
    LET score == P.balance
                 + (IF P.white THEN MOBILITY_WEIGHT * P.mob_w
                               ELSE -MOBILITY_WEIGHT * P.mob_b)
                 + (IF P.castle_w THEN CASTLING_BONUS ELSE 0)
                 - (IF P.castle_b THEN CASTLING_BONUS ELSE 0)
        side_eval == IF P.white THEN score ELSE -score
    IN  side_eval + drawish_bias(P, side_eval)

\* pesto_eval.pesto_eval: the tapered table value, scored for the side to
\* move (as UltimateEngine.evaluate documents it).
pesto_eval(P) == IF P.white THEN P.balance ELSE -P.balance

\* UltimateEngine.evaluate
ultimate_evaluate(P) ==
    LET pesto == pesto_eval(P)
        mob_diff == IF P.white THEN P.mob_w - P.mob_b ELSE P.mob_b - P.mob_w
        castling_bonus == (IF P.castle_w THEN U_CASTLING_BONUS ELSE 0)
                          - (IF P.castle_b THEN U_CASTLING_BONUS ELSE 0)
        score == pesto + MOBILITY_WEIGHT * mob_diff
                 + (IF P.white THEN castling_bonus ELSE -castling_bonus)
    IN  score + drawish_bias(P, score)

evaluate(tier, P) == IF tier = "ultimate" THEN ultimate_evaluate(P) ELSE base_evaluate(P)

\* board.copy(stack=False) with turn = not turn
FlipTurn(P) == [P EXCEPT !.white = ~@]

\* Sample positions: balances in steps of a pawn up to MaxBalance pawns,
\* mobilities up to MaxMobility moves a side.
MaxBalance == 3
MaxMobility == 33

SamplePositions ==
    [balance : {PAWN_VALUE * k : k \in -MaxBalance .. MaxBalance},
     mob_w : 1 .. MaxMobility, mob_b : 1 .. MaxMobility,
     castle_w : BOOLEAN, castle_b : BOOLEAN,
     halfmove_clock : {0, FIFTY_MOVE_CLOCK},
     white : {TRUE}]

InitEval ==
    /\ Init
    /\ engine \in {"level3", "ultimate"}

\* test_evaluation_perspective: evaluate the position and the position with
\* the other side to move.
EvaluateTrial ==
    /\ trial = None
    /\ \E P \in SamplePositions :
        trial' = [fn |-> "evaluate", args |-> P,
                  value |-> <<evaluate(engine, P), evaluate(engine, FlipTurn(P))>>]
    /\ UNCHANGED <<ttVars, searchVars, histVars, iterVars, aborted, first, m2m, gm, tc>>

NextEval == EvaluateTrial

SpecEval == InitEval /\ [][NextEval]_vars

TOLERANCE == 100

Abs(x) == IF x < 0 THEN -x ELSE x

\* C15: for a non-terminal position with an empty move history, the values
\* evaluate gives the position and the position with the other side to move
\* cancel to within TOLERANCE, for BaseEngine.evaluate (Level3) and for
\* UltimateEngine.evaluate.
C15_SignSymmetry ==
    (trial # None /\ trial.fn = "evaluate")
        => Abs(trial.value[1] + trial.value[2]) < TOLERANCE

(***************************************************************************)
(* MCTSCNNEvalEngine._evaluate_leaf.  Its inputs: the kind of the leaf     *)
(* position, what the table holds for it (None or <<score>>), the value    *)
(* network ("missing": self.model is None; "raises": evaluate_with_cnn    *)
(* raises; "ok": it returns cnn), whether the deadline has passed, and     *)
(* the value the rollout of MCTSEngine._evaluate_leaf gives.  Its outcome: *)
(* the value returned or the exception raised, and the scores it stored.   *)
(* MCTSEngine.__init__ always enables the table, so the use_tt tests pass. *)
(***************************************************************************)
\* The names bound in the module mcts_cnn_engine: its imports and its class.
CnnModuleNames ==
    {"annotations", "time", "Path", "Optional", "chess", "SearchResult",
     "is_time_exceeded", "MCTSEngine", "MCTSNode", "evaluate_with_cnn",
     "load_value_network", "ensure_torch", "MCTSCNNEvalEngine"}

\* Evaluating a global name: a NameError unless the module binds it.
NameError(name) == name \notin CnnModuleNames

LeafReturns(value, stored) == [raised |-> None, value |-> <<value>>, stored |-> stored]

LeafRaises(exception, stored) == [raised |-> <<exception>>, value |-> None, stored |-> stored]

cnn_evaluate_leaf(kind, hit, model, time_up, cnn, rollout) ==
    LET clamp1(v) == Max(-VALUE_SCALE, Min(VALUE_SCALE, v))
        \* the try block: <<value>> when it returns, None when the except
        \* clause swallowed an exception
        tried == IF model = "raises" THEN None
                 ELSE IF NameError("TTEntry") THEN None
                 ELSE <<clamp1(cnn)>>
        \* super()._evaluate_leaf: the rollout, stored by mcts_engine (which
        \* imports TTEntry)
        fallback == IF NameError("TTEntry")
                    THEN LeafRaises("NameError", <<rollout>>)
                    ELSE LeafReturns(rollout, <<rollout, rollout>>)
    IN  IF kind = "checkmate" THEN LeafReturns(-VALUE_SCALE, <<>>)
        ELSE IF kind = "draw" THEN LeafReturns(0, <<>>)
        ELSE IF hit # None THEN LeafReturns(clamp1(hit[1]), <<>>)
        ELSE IF model # "missing" /\ ~time_up /\ tried # None
             THEN LeafReturns(tried[1], <<cnn>>)
        ELSE fallback

\* Sample leaf values, in steps of half a unit.
MaxLeafValue == 2
LeafValues == {(VALUE_SCALE \div 2) * k : k \in -MaxLeafValue .. MaxLeafValue}

InitLeaf ==
    /\ Init
    /\ engine = "mcts"

EvaluateLeafTrial ==
    /\ trial = None
    /\ \E kind \in {"checkmate", "draw", "open"},
          hit \in {None} \cup {<<v>> : v \in LeafValues},
          model \in {"missing", "raises", "ok"},
          time_up \in BOOLEAN,
          rollout \in {ClampValue(v) : v \in LeafValues} :
        LET a == [kind |-> kind, cached |-> hit, model |-> model,
                  time_up |-> time_up, rollout |-> rollout]
        IN  trial' = [fn |-> "_evaluate_leaf", args |-> a,
                      value |-> cnn_evaluate_leaf(kind, hit, model, time_up,
                                                  rollout, rollout)]
    /\ UNCHANGED <<ttVars, searchVars, histVars, iterVars, aborted, first, m2m, gm, tc>>

NextLeaf == EvaluateLeafTrial

SpecLeaf == InitLeaf /\ [][NextLeaf]_vars

\* C16: when the value network is missing or raises on a non-terminal leaf
\* the table does not hold, _evaluate_leaf returns the rollout value of
\* MCTSEngine._evaluate_leaf and raises nothing.
C16_FallsBackToRollout ==
    (/\ trial # None
     /\ trial.fn = "_evaluate_leaf"
     /\ trial.args.kind = "open"
     /\ trial.args.cached = None
     /\ trial.args.model \in {"missing", "raises"})
        => /\ trial.value.raised = None
           /\ trial.value.value = <<trial.args.rollout>>

(***************************************************************************)
(* Construction.  TranspositionTable.__init__ computes the entry count     *)
(* from size_mb and has no raise statement; BaseEngine.__init__ builds a   *)
(* table when use_tt is set.  The outcome of a construction is the         *)
(* exception raised (None when it returns) and the object built.           *)
(***************************************************************************)
\* TranspositionTable(size_mb)
tt_init(size_mb) ==
    [raised |-> None,
     object |-> <<[size |-> TTSizeOf(size_mb), table |-> <<>>,
                   hits |-> 0, misses |-> 0, overwrites |-> 0]>>]

\* BaseEngine(use_tt, tt_size_mb)
engine_init(use_tt, tt_size_mb) ==
    LET table == IF use_tt THEN tt_init(tt_size_mb) ELSE [raised |-> None, object |-> None]
    IN  IF table.raised # None
        THEN [raised |-> table.raised, object |-> None]
        ELSE [raised |-> None,
              object |-> <<[use_tt |-> use_tt, tt |-> table.object]>>]

\* Sizes tried: -MaxSizeMb .. MaxSizeMb megabytes.
MaxSizeMb == 32

InitCtor ==
    /\ Init
    /\ engine \in {"level3", "level4"}

ConstructTrial ==
    /\ trial = None
    /\ \E class \in {"TranspositionTable", "BaseEngine"},
          use_tt \in BOOLEAN, size_mb \in -MaxSizeMb .. MaxSizeMb :
        /\ class = "TranspositionTable" => use_tt
        /\ trial' = [fn |-> "__init__",
                     args |-> [class |-> class, use_tt |-> use_tt, size_mb |-> size_mb],
                     value |-> IF class = "TranspositionTable"
                               THEN tt_init(size_mb)
                               ELSE engine_init(use_tt, size_mb)]
    /\ UNCHANGED <<ttVars, searchVars, histVars, iterVars, aborted, first, m2m, gm, tc>>

NextCtor == ConstructTrial

SpecCtor == InitCtor /\ [][NextCtor]_vars

\* C17: constructing a TranspositionTable, or an engine with use_tt set,
\* with a size_mb that is not positive fails at construction.
C17_NonPositiveSizeRejected ==
    (/\ trial # None
     /\ trial.fn = "__init__"
     /\ trial.args.use_tt
     /\ trial.args.size_mb <= 0)
        => trial.value.raised # None

(***************************************************************************)
(* Machine-versus-machine orchestration.  run_match and run_batch start a  *)
(* daemon thread each; run_time_benchmark runs the games of a time limit   *)
(* in a thread pool.  Every game loop takes the engine of the side to move *)
(* from registry.get_engine, whose lru_cache keeps one instance a level.   *)
(* A thread is a record: kind, the white and black levels asked for,       *)
(* swap_colors, the index of its game, the games still to play after it,   *)
(* the ply, where it is ("loop": at the head of the move loop, "choosing": *)
(* inside engine.choose_move, "done"), and the instance it is using.       *)
(***************************************************************************)
M2MLevels == {"level3", "mcts"}

\* threads the controller may start, max_moves, games of a batch
MaxThreads == 2
MaxMoves == 2
MaxGames == 2

Worker(kind, white, black, swap, idx, left) ==
    [kind |-> kind, white |-> white, black |-> black, swap_colors |-> swap,
     game_idx |-> idx, left |-> left, ply |-> 0, pc |-> "loop", using |-> None]

\* The level that moves: White on even plies, with the colours swapped on
\* odd games when swap_colors is set.
LevelToMove(w) ==
    LET swap == w.swap_colors /\ w.game_idx % 2 = 1
        white_engine == IF swap THEN w.black ELSE w.white
        black_engine == IF swap THEN w.white ELSE w.black
    IN  IF w.ply % 2 = 0 THEN white_engine ELSE black_engine

\* registry.get_engine: the cached instance of the level, made on first use.
\* An instance is named by its level, since the cache holds one a level.
get_engine(cache, level) == [instance |-> level, cache |-> cache \cup {level}]

\* M2MController.run_match
RunMatch ==
    /\ Len(m2m.threads) < MaxThreads
    /\ \E white \in M2MLevels, black \in M2MLevels :
        m2m' = [m2m EXCEPT !.threads =
                    Append(@, Worker("match", white, black, FALSE, 0, 0))]
    /\ UNCHANGED <<ttVars, searchVars, histVars, iterVars, trial, aborted, first, gm, tc>>

\* M2MController.run_batch: one thread plays the games one after another.
RunBatch ==
    /\ Len(m2m.threads) < MaxThreads
    /\ \E white \in M2MLevels, black \in M2MLevels, games \in 1 .. MaxGames,
          swap \in BOOLEAN :
        m2m' = [m2m EXCEPT !.threads =
                    Append(@, Worker("batch", white, black, swap, 0, games - 1))]
    /\ UNCHANGED <<ttVars, searchVars, histVars, iterVars, trial, aborted, first, gm, tc>>

\* M2MController.run_time_benchmark, for one time limit: the pool starts
\* min(max_workers, games_per_limit) threads and queues the other games.
RunTimeBenchmark ==
    /\ m2m.queue = 0
    /\ \A i \in 1 .. Len(m2m.threads) :
          m2m.threads[i].kind = "pool" => m2m.threads[i].pc = "done"
    /\ \E white \in M2MLevels, black \in M2MLevels, games \in 1 .. MaxGames,
          max_workers \in 1 .. MaxGames, swap \in BOOLEAN :
        LET n == Min(max_workers, games)
            pool == [i \in 1 .. n |-> Worker("pool", white, black, swap, i - 1, 0)]
        IN  /\ Len(m2m.threads) + n <= MaxThreads
            /\ m2m' = [m2m EXCEPT !.threads = @ \o pool, !.queue = games - n]
    /\ UNCHANGED <<ttVars, searchVars, histVars, iterVars, trial, aborted, first, gm, tc>>

\* The end of a game: a batch thread starts its next game, a pool thread
\* takes the next queued game, a match thread ends.
GameOver(t) ==
    LET w == m2m.threads[t]
        idle == [w EXCEPT !.pc = "done", !.using = None]
        again == [w EXCEPT !.pc = "loop", !.using = None, !.ply = 0]
    IN  IF w.kind = "batch" /\ w.left > 0
        THEN [m2m EXCEPT !.threads[t] =
                  [again EXCEPT !.game_idx = @ + 1, !.left = @ - 1]]
        ELSE IF w.kind = "pool" /\ m2m.queue > 0
        THEN [m2m EXCEPT !.queue = @ - 1,
                         !.threads[t] = [again EXCEPT !.game_idx = @ + Len(m2m.threads)]]
        ELSE [m2m EXCEPT !.threads[t] = idle]

\* _run_match_sync / _play_game_oneoff, head of the move loop: leave it
\* after max_moves, else fetch the engine of the side to move and call
\* choose_move on it.
GameTurn(t) ==
    /\ t \in 1 .. Len(m2m.threads)
    /\ m2m.threads[t].pc = "loop"
    /\ LET w == m2m.threads[t]
           e == get_engine(m2m.cache, LevelToMove(w))
       IN  m2m' = IF w.ply >= MaxMoves
                  THEN GameOver(t)
                  ELSE [m2m EXCEPT !.cache = e.cache,
                                   !.threads[t].pc = "choosing",
                                   !.threads[t].using = <<e.instance>>]
    /\ UNCHANGED <<ttVars, searchVars, histVars, iterVars, trial, aborted, first, gm, tc>>

\* choose_move returns: no move or a finished game ends the loop, else the
\* move is pushed and the loop goes on.
MoveChosen(t) ==
    /\ t \in 1 .. Len(m2m.threads)
    /\ m2m.threads[t].pc = "choosing"
    /\ \E goes_on \in BOOLEAN :
        m2m' = IF goes_on
               THEN [m2m EXCEPT !.threads[t].pc = "loop",
                                !.threads[t].using = None,
                                !.threads[t].ply = @ + 1]
               ELSE GameOver(t)
    /\ UNCHANGED <<ttVars, searchVars, histVars, iterVars, trial, aborted, first, gm, tc>>

InitM2M ==
    /\ Init
    /\ engine = "level3"

NextM2M ==
    \/ RunMatch
    \/ RunBatch
    \/ RunTimeBenchmark
    \/ \E t \in 1 .. MaxThreads : GameTurn(t)
    \/ \E t \in 1 .. MaxThreads : MoveChosen(t)

SpecM2M == InitM2M /\ [][NextM2M]_vars

\* C18: no two games running at the same time are inside choose_move of the
\* same engine instance.
C18_NoSharedEngine ==
    \A s \in 1 .. Len(m2m.threads), t \in 1 .. Len(m2m.threads) :
        (s # t /\ m2m.threads[s].pc = "choosing" /\ m2m.threads[t].pc = "choosing")
            => m2m.threads[s].using # m2m.threads[t].using

\* C19: in UltimateEngine the quiescence nodes never exceed the nodes: for
\* the counters of the root move being searched, for the totals of the
\* call, and for qnodes and nodes of the extra_info returned.
C19_QNodesWithinNodes ==
    engine = "ultimate" =>
        /\ cm # None => (cm.qnodes <= cm.nodes /\ cm.total_qnodes <= cm.total_nodes)
        /\ (result # None /\ result[1].extra_info # None) =>
              result[1].extra_info[1].qnodes <= result[1].extra_info[1].nodes

C19_Witness ==
    /\ engine = "ultimate"
    /\ pc = "done"
    /\ result # None
    /\ result[1].extra_info # None
    /\ result[1].extra_info[1].qnodes > 1
    /\ result[1].extra_info[1].qnodes < result[1].extra_info[1].nodes

(***************************************************************************)
(* ZobristHasher.  The tables are filled from random.Random(seed) in a     *)
(* fixed order: piece_table[piece][colour][square], castling_table[0..3],  *)
(* en_passant_table[file], side_to_move.  The generator is a function of   *)
(* its seed alone; it is modelled by a linear congruential sequence of     *)
(* MaxBits-bit words (64-bit words of the Mersenne Twister in the program).*)
(* The board hashed has the squares 0 .. MaxSquare and the piece types     *)
(* 1 .. MaxPieceType; a position is the record of what hash_position and   *)
(* the rest of the program read from a board: pieces (square -> None or    *)
(* <<piece_type, white>>), castling (the four rights, in table order),     *)
(* ep_square (None or <<square>>), white (White to move), halfmove_clock.  *)
(***************************************************************************)
MaxBits == 8
MaxSquare == 1
MaxPieceType == 2

\* 0xDEADBEEF, the default seed, in its low eight bits
DEFAULT_SEED_LOW == 239

WordSize == 2 ^ MaxBits

RECURSIVE XorBits(_, _, _)
XorBits(a, b, bits) ==
    IF bits = 0 THEN 0
    ELSE ((a + b) % 2) + 2 * XorBits(a \div 2, b \div 2, bits - 1)

\* Python's a ^ b on words
Xor(a, b) == XorBits(a, b, MaxBits)

NumSquares == MaxSquare + 1
PieceDraws == MaxPieceType * 2 * NumSquares
NumDraws == PieceDraws + 4 + NumSquares + 1

\* rng.getrandbits, called NumDraws times from the seed
RECURSIVE Draws(_, _)
Draws(state, n) ==
    IF n = 0 THEN <<>>
    ELSE LET next == (state * 77 + 43) % WordSize
         IN  <<next>> \o Draws(next, n - 1)

\* ZobristHasher(seed): the tables, as the sequence of the draws
ZobristHasher(seed) ==
    Draws((IF seed = None THEN DEFAULT_SEED_LOW ELSE seed[1]) % WordSize, NumDraws)

\* ZobristHasher(), as get_hasher and any other caller without a seed build it
DefaultHasher == ZobristHasher(None)

\* _piece_index
piece_index(piece_type) == piece_type - 1

piece_table(hasher, piece_idx, color_idx, square) ==
    hasher[(piece_idx * 2 + color_idx) * NumSquares + square + 1]

castling_table(hasher, i) == hasher[PieceDraws + i + 1]

en_passant_table(hasher, file_idx) == hasher[PieceDraws + 4 + file_idx + 1]

side_to_move(hasher) == hasher[NumDraws]

\* chess.square_file
square_file(square) == square % 8

\* hash_position: the side-to-move step.  SideTermAlways hashes the value
\* for either side.
SideTermAlways(hasher, white) == side_to_move(hasher)

SideTerm(hasher, white) == IF white THEN 0 ELSE side_to_move(hasher)

\* ZobristHasher.hash_position
hash_position(hasher, P) ==
    LET RECURSIVE squares(_, _)
        squares(h, square) ==
            IF square > MaxSquare THEN h
            ELSE LET piece == P.pieces[square]
                 IN  squares(IF piece # None
                             THEN Xor(h, piece_table(hasher, piece_index(piece[1]),
                                                     IF piece[2] THEN 0 ELSE 1, square))
                             ELSE h,
                             square + 1)
        RECURSIVE rights(_, _)
        rights(h, i) ==
            IF i > 3 THEN h
            ELSE rights(IF P.castling[i] THEN Xor(h, castling_table(hasher, i)) ELSE h,
                        i + 1)
        pieces == squares(0, 0)
        castled == rights(pieces, 0)
        passant == IF P.ep_square # None
                   THEN Xor(castled, en_passant_table(hasher, square_file(P.ep_square[1])))
                   ELSE castled
    IN  Xor(passant, SideTerm(hasher, P.white))

ZobristPositions ==
    [pieces : [0 .. MaxSquare ->
                 {None} \cup {<<t, w>> : t \in 1 .. MaxPieceType, w \in BOOLEAN}],
     castling : [0 .. 3 -> BOOLEAN],
     ep_square : {None} \cup {<<sq>> : sq \in 0 .. MaxSquare},
     white : BOOLEAN,
     halfmove_clock : {0}]

InitZobrist ==
    /\ Init
    /\ engine = "level4"

\* hash_position applied to a position, to the same position reached along
\* another line (a later halfmove clock) by a second default-seeded
\* instance, and to the position with the other side to move.
HashTrial ==
    /\ trial = None
    /\ \E P \in ZobristPositions :
        trial' = [fn |-> "hash_position", args |-> P,
                  value |-> [h |-> hash_position(DefaultHasher, P),
                             again |-> hash_position(ZobristHasher(None),
                                          [P EXCEPT !.halfmove_clock = @ + 2]),
                             flipped |-> hash_position(DefaultHasher, FlipTurn(P))]]
    /\ UNCHANGED <<ttVars, searchVars, histVars, iterVars, aborted, first, m2m, gm, tc>>

NextZobrist == HashTrial

SpecZobrist == InitZobrist /\ [][NextZobrist]_vars

\* The table values of the features of a position: the entries of its
\* occupied squares, of its castling rights, of its en-passant file, and the
\* side-to-move entry when Black is to move (as indices into the draws).
C20_Features(P) ==
    {(piece_index(P.pieces[sq][1]) * 2 + (IF P.pieces[sq][2] THEN 0 ELSE 1)) * NumSquares
        + sq + 1 : sq \in {q \in 0 .. MaxSquare : P.pieces[q] # None}}
    \cup {PieceDraws + i + 1 : i \in {j \in 0 .. 3 : P.castling[j]}}
    \cup (IF P.ep_square = None THEN {}
          ELSE {PieceDraws + 4 + (P.ep_square[1] % 8) + 1})
    \cup (IF P.white THEN {} ELSE {NumDraws})

RECURSIVE C20_XorOver(_, _)
C20_XorOver(hasher, S) ==
    IF S = {} THEN 0
    ELSE LET x == CHOOSE y \in S : \A z \in S : y >= z
         IN  Xor(hasher[x], C20_XorOver(hasher, S \ {x}))

\* C20: hash_position is the XOR of the table values of exactly the pieces
\* on the squares, the castling rights held, the en-passant file if set and
\* the side to move; a position with the same features hashed by another
\* default-seeded instance gets the same hash; flipping the side to move
\* changes the hash by XOR with the side-to-move value.
C20_HashIsXorOfFeatures ==
    (trial # None /\ trial.fn = "hash_position") =>
        /\ trial.value.h = C20_XorOver(DefaultHasher, C20_Features(trial.args))
        /\ trial.value.again = trial.value.h
        /\ trial.value.flipped = Xor(trial.value.h, side_to_move(DefaultHasher))

C20_Witness ==
    /\ trial # None
    /\ trial.fn = "hash_position"
    /\ \A sq \in 0 .. MaxSquare : trial.args.pieces[sq] # None
    /\ trial.args.castling[1] /\ ~trial.args.castling[2]
    /\ trial.args.ep_square # None
    /\ ~trial.args.white
    /\ trial.value.h # trial.value.flipped

\* C21: every push of a move onto the position searched is made at a place
\* where the running call has just read the clock (is_time_exceeded), so no
\* node is expanded once the deadline has passed.
C21_PushAfterClockRead ==
    [][(pc \in {"root", "search"} /\ Len(board'.stack) > Len(board.stack))
          => AtClockRead]_vars

\* C22: in every tier a node of the search in which the side to move is
\* checkmated returns -MATE_SCORE, the value of evaluate_terminal_position,
\* and not a static evaluation.
C22_TerminalCheckFirst ==
    (/\ pc = "search"
     /\ stack # <<>>
     /\ Top.pc = "ret"
     /\ Here(board).kind = "checkmate")
        => Top.val = -MATE_SCORE

\* C23: the backpropagation of a simulation with leaf value v adds one visit
\* to each node of the selected path and touches no other node; the leaf's
\* value_sum grows by v, its parent's by -v, alternating up to the root; and
\* the mean value of every node stays within [-1, 1] (VALUE_SCALE units).
C23_Backpropagation ==
    /\ []((engine = "mcts" /\ cm # None) =>
            \A p \in DOMAIN cm.tree :
                /\ cm.tree[p].value_sum <= VALUE_SCALE * cm.tree[p].visit_count
                /\ cm.tree[p].value_sum >= -VALUE_SCALE * cm.tree[p].visit_count)
    /\ [][(pc = "mcts_backprop" /\ Tracked(cm)) =>
            /\ DOMAIN cm'.tree = DOMAIN cm.tree
            /\ \A i \in 1 .. Len(cm.path) :
                 LET n == cm.path[i]
                     v == IF (Len(cm.path) - i) % 2 = 0 THEN cm.value ELSE -cm.value
                 IN  /\ cm'.tree[n].visit_count = cm.tree[n].visit_count + 1
                     /\ cm'.tree[n].value_sum = cm.tree[n].value_sum + v
            /\ \A p \in DOMAIN cm.tree :
                 (\A i \in 1 .. Len(cm.path) : cm.path[i] # p)
                     => cm'.tree[p] = cm.tree[p]]_vars

\* Two simulations ran to their end with a value that is not zero.
C23_Witness ==
    /\ engine = "mcts"
    /\ pc = "mcts_loop"
    /\ cm.tree[<<>>].visit_count = 2
    /\ cm.tree[<<>>].value_sum # 0
    /\ \E p \in DOMAIN cm.tree :
          p # <<>> /\ cm.tree[p].visit_count > 0 /\ cm.tree[p].value_sum # 0

(***************************************************************************)
(* The recursive tiers on the exchange lines: one choose_move call, on the *)
(* line whose quiet run is as long as some tier's maximum depth or on the  *)
(* long quiet line, under every time limit.                                *)
(***************************************************************************)
LineGames ==
    {-max_depth(t) : t \in Tiers \ {"mcts"}} \cup {-LongRun}

InitLine ==
    /\ Init
    /\ engine # "mcts"

ChooseMoveLine == ChooseMoveOn(LineGames, TimeLimits, 1)

NextLine ==
    \/ ChooseMoveLine
    \/ Tick
    \/ DepthLoop
    \/ RootLoop
    \/ RootReturn
    \/ Finish
    \/ ABEnterTT
    \/ ABEnterPlain
    \/ LeafEval
    \/ ABLoop
    \/ ABReturn
    \/ ABQuiesced
    \/ ABExit
    \/ QEnter
    \/ QLoop
    \/ QReturn

SpecLine == InitLine /\ [][NextLine]_vars

zobrist_push(P, move) ==
    [P EXCEPT !.pieces = [sq \in 0 .. MaxSquare |->
                             IF sq = move[2] THEN P.pieces[move[1]]
                             ELSE IF sq = move[1] THEN None
                             ELSE P.pieces[sq]],
              !.ep_square = None,
              !.white = ~@,
              !.halfmove_clock = @ + 1]

\* ZobristHasher.update_hash: return self.hash_position(board)
update_hash(hasher, current_hash, move, P) == hash_position(hasher, P)

\* update_hash called with the board before the move and its hash.
UpdateHashTrial ==
    /\ trial = None
    /\ \E P \in ZobristPositions, from \in 0 .. MaxSquare, to \in 0 .. MaxSquare :
        /\ from # to
        /\ P.pieces[from] # None
        /\ P.pieces[from][2] = P.white
        /\ trial' = [fn |-> "update_hash", args |-> [board |-> P, move |-> <<from, to>>],
                     value |-> [updated |-> update_hash(DefaultHasher,
                                               hash_position(DefaultHasher, P),
                                               <<from, to>>, P),
                                pushed |-> hash_position(DefaultHasher,
                                               zobrist_push(P, <<from, to>>))]]
    /\ UNCHANGED <<ttVars, searchVars, histVars, iterVars, aborted, first, m2m, gm, tc>>

NextUpdate == UpdateHashTrial

SpecUpdate == InitZobrist /\ [][NextUpdate]_vars

\* C25: update_hash, given the board before a move and its hash, returns
\* the hash hash_position gives once the move has been pushed.
C25_UpdateHashIsHashAfterMove ==
    (trial # None /\ trial.fn = "update_hash")
        => trial.value.updated = trial.value.pushed

\* C26: a root child whose position is checkmate (the player at the root has
\* mated) has mean value +1 after any number of visits, the value by which
\* select and _best_move rank it.
C26_MateChildHasValueOne ==
    (engine = "mcts" /\ cm # None) =>
        \A p \in DOMAIN cm.tree :
            (/\ Len(p) = 1
             /\ Here(cm.tree[p].board).kind = "checkmate"
             /\ cm.tree[p].visit_count > 0)
                => cm.tree[p].value_sum = VALUE_SCALE * cm.tree[p].visit_count

\* C27: in every tier and for every time limit, one already expired when the
\* call starts included, choose_move returns move None only on a position
\* with no legal move, and otherwise one of the position's legal moves.
C27_MoveUnlessNoLegalMove ==
    (Done /\ RootPosition.moves # <<>>)
        => /\ Returned.move # None
           /\ Returned.move[1] \in 1 .. Len(RootPosition.moves)

(***************************************************************************)
(* The table-backed tiers on GameBound.                                    *)
(***************************************************************************)
InitBound ==
    /\ Init
    /\ engine \in TTFamily

ChooseMoveBound == ChooseMoveOn({0}, TimeLimits, 1)

NextBound ==
    \/ ChooseMoveBound
    \/ Tick
    \/ DepthLoop
    \/ RootLoop
    \/ RootReturn
    \/ Finish
    \/ ABEnterTT
    \/ ABLoop
    \/ ABReturn
    \/ ABQuiesced
    \/ ABExit
    \/ QEnter
    \/ QLoop
    \/ QReturn

SpecBound == InitBound /\ [][NextBound]_vars

\* C28: in the alphabeta of the table-backed tiers (Level4, Ultimate and the
\* submit Level3) every probe that returns an entry makes the activation
\* return the cached score at once, with no child searched and no hand-over
\* to quiescence: a LOWER_BOUND comes back only with score >= beta and an
\* UPPER_BOUND only with score <= alpha, so the window is never merely
\* narrowed.
C28_HitReturnsCached ==
    [][(/\ pc = "search"
        /\ engine \in TTFamily
        /\ Top.fn = "alphabeta"
        /\ Top.pc = "enter"
        /\ evaluate_terminal_position(board) = None
        /\ stack' # stack
        /\ cached' # None)
          => /\ Len(stack') = Len(stack)
             /\ Top'.pc = "ret"
             /\ Top'.val = cached'[1]
             /\ cached'[2] = LOWER_BOUND => cached'[1] >= Top.beta
             /\ cached'[2] = UPPER_BOUND => cached'[1] <= Top.alpha]_vars

C28_Witness ==
    /\ pc = "search"
    /\ engine \in TTFamily
    /\ Top.fn = "alphabeta"
    /\ Top.pc = "ret"
    /\ cached # None
    /\ cached[2] \in {LOWER_BOUND, UPPER_BOUND}
    /\ Top.val = cached[1]
    /\ Top.hash_key = None
    /\ evaluate_terminal_position(board) = None

(***************************************************************************)
(* GameManager (game_manager.py) and its HistoryStore.  gm.games maps the  *)
(* game ids 1, 2, ... (uuid4 values, fresh at every create_game) to the    *)
(* sessions; gm.history is HistoryStore.entries, newest first.  A session  *)
(* plays on the position trees above; move_history holds the moves pushed  *)
(* (their SAN in the code).  A request that raises (get_game's KeyError,   *)
(* not_player_turn, illegal_move, ai_not_enabled, missing_ai_level,        *)
(* ai_wait_player_turn) raises before it assigns anything.                 *)
(***************************************************************************)
MaxSessions == 1
MaxEntries == 3

GameModes == {"h2h", "h2m", "m2m"}
PlayerColors == {"white", "black"}
ManagedLevels == {"level1", "level3"}
StartPositions == {1, 2, 3}
Optional(S) == {None} \cup {<<x>> : x \in S}

\* utils.winner_from_board
winner_from_board(b) == IF ~b.turn THEN "white" ELSE "black"

\* utils.evaluate_status, without in_check
evaluate_status(b) ==
    LET kind == Here(b).kind
    IN  CASE kind = "checkmate" ->
                [status |-> "checkmate", winner |-> <<winner_from_board(b)>>,
                 reason |-> <<"checkmate">>]
          [] kind = "stalemate" ->
                [status |-> "stalemate", winner |-> None, reason |-> <<"stalemate">>]
          [] kind = "insufficient" ->
                [status |-> "draw", winner |-> None, reason |-> <<"insufficient_material">>]
          [] kind = "claimable" ->
                [status |-> "draw", winner |-> None, reason |-> <<"threefold_repetition">>]
          [] OTHER ->
                [status |-> "in_progress", winner |-> None, reason |-> None]

GameSession(game_id, mode, b, ai_level, player_color) ==
    [game_id |-> game_id, mode |-> mode, board |-> b, ai_level |-> ai_level,
     player_color |-> player_color, move_history |-> <<>>, status |-> "in_progress",
     winner |-> None, result_reason |-> None, last_move |-> None]

\* HistoryStore.add_game as the manager calls it: entries.insert(0, entry)
add_game(entries, session, winner, reason) ==
    << [id |-> session.game_id, kind |-> "game", mode |-> session.mode,
        ai_level |-> session.ai_level, player_color |-> session.player_color,
        winner |-> winner, result_reason |-> IF reason = None THEN "" ELSE reason[1],
        moves |-> Len(session.move_history)] >> \o entries

\* The move of the SearchResult that engine.choose_move hands to ai_move: None
\* on a position without a legal move; one of the legal moves; and None from
\* an iterative-deepening tier whose time limit has expired at the first check.
ResultMoves(level, b, limit) ==
    IF Here(b).moves = <<>> THEN {None}
    ELSE {<<i>> : i \in 1 .. Len(Here(b).moves)}
            \cup (IF level \in IDTiers /\ is_time_exceeded(0, limit) THEN {None} ELSE {})

\* The session after board.push(move) and the status update, and the store
\* after the add_game of a game that ended (apply_move, ai_move).
Played(session, move) ==
    LET b == Push(session.board, move)
        st == evaluate_status(b)
        after == [session EXCEPT !.board = b, !.last_move = <<move>>,
                                 !.move_history = Append(@, move),
                                 !.status = st.status, !.winner = st.winner,
                                 !.result_reason = st.reason]
    IN  [session |-> after,
         history |-> IF st.status # "in_progress"
                     THEN add_game(gm.history, after, st.winner, st.reason)
                     ELSE gm.history]

\* GameManager.create_game
CreateGame ==
    /\ Len(gm.games) < MaxSessions
    /\ \E mode \in GameModes, ai_level \in Optional(ManagedLevels),
          player_color \in Optional(PlayerColors), start \in StartPositions :
          gm' = [gm EXCEPT !.games =
                    Append(@, GameSession(Len(gm.games) + 1, mode, Board(start),
                                          ai_level, player_color))]
    /\ UNCHANGED <<ttVars, searchVars, histVars, iterVars, trial, aborted, first, m2m, tc>>

\* GameManager.apply_move
ApplyMove ==
    /\ \E game_id \in 1 .. Len(gm.games), move \in 1 .. 2 :
          LET session == gm.games[game_id]
              raises == \/ /\ session.mode = "h2m"
                            /\ session.player_color # None
                            /\ session.board.turn # (session.player_color[1] = "white")
                        \/ move > Len(Here(session.board).moves)
              played == Played(session, move)
          IN  IF session.status # "in_progress" \/ raises
              THEN gm' = gm
              ELSE gm' = [games |-> [gm.games EXCEPT ![game_id] = played.session],
                          history |-> played.history]
    /\ UNCHANGED <<ttVars, searchVars, histVars, iterVars, trial, aborted, first, m2m, tc>>

\* GameManager.ai_move
AiMove ==
    /\ \E game_id \in 1 .. Len(gm.games), limit \in TimeLimits :
          LET session == gm.games[game_id]
              raises == \/ session.mode = "h2h"
                        \/ session.ai_level = None
                        \/ /\ session.mode = "h2m"
                           /\ session.player_color # None
                           /\ session.board.turn = (session.player_color[1] = "white")
          IN  IF session.status # "in_progress" \/ raises
              THEN gm' = gm
              ELSE \E move \in ResultMoves(session.ai_level[1], session.board, limit) :
                      IF move = None
                      THEN LET st == evaluate_status(session.board)
                           IN  gm' = [gm EXCEPT !.games[game_id] =
                                         [session EXCEPT !.status = st.status,
                                                         !.winner = st.winner,
                                                         !.result_reason = st.reason]]
                      ELSE LET played == Played(session, move[1])
                           IN  gm' = [games |-> [gm.games EXCEPT ![game_id] = played.session],
                                      history |-> played.history]
    /\ UNCHANGED <<ttVars, searchVars, histVars, iterVars, trial, aborted, first, m2m, tc>>

\* GameManager.resign
Resign ==
    /\ Len(gm.history) < MaxEntries
    /\ \E game_id \in 1 .. Len(gm.games), player \in PlayerColors :
          LET session == gm.games[game_id]
              after == [session EXCEPT
                          !.status = "resigned",
                          !.winner = <<IF player = "white" THEN "black" ELSE "white">>,
                          !.result_reason = <<"resign">>]
          IN  gm' = [games |-> [gm.games EXCEPT ![game_id] = after],
                     history |-> add_game(gm.history, after, after.winner,
                                          after.result_reason)]
    /\ UNCHANGED <<ttVars, searchVars, histVars, iterVars, trial, aborted, first, m2m, tc>>

InitManager ==
    /\ Init
    /\ engine = "level3"

NextManager ==
    \/ CreateGame
    \/ ApplyMove
    \/ AiMove
    \/ Resign

SpecManager == InitManager /\ [][NextManager]_vars

\* The history entries of a game.
EntriesOf(game_id) == {i \in 1 .. Len(gm.history) : gm.history[i].id = game_id}

\* C29: a finished game is final: once the status of a session has left
\* in_progress, no request (apply_move, ai_move, resign) changes its board,
\* move_history, status, winner or result_reason, and the history store holds
\* exactly one entry for the game.
C29_FinishedIsFinal ==
    /\ [][\A game_id \in 1 .. Len(gm.games) :
            gm.games[game_id].status # "in_progress"
                => /\ gm'.games[game_id].board = gm.games[game_id].board
                   /\ gm'.games[game_id].move_history = gm.games[game_id].move_history
                   /\ gm'.games[game_id].status = gm.games[game_id].status
                   /\ gm'.games[game_id].winner = gm.games[game_id].winner
                   /\ gm'.games[game_id].result_reason = gm.games[game_id].result_reason]_vars
    /\ [](\A game_id \in 1 .. Len(gm.games) :
            gm.games[game_id].status # "in_progress"
                => Cardinality(EntriesOf(game_id)) = 1)

(***************************************************************************)
(* TrainingController (training_controller.py).  tc maps the training ids  *)
(* 1, 2, ... to the tasks.  A task carries, next to the fields of          *)
(* TrainingTask, its thread (pc: where _run_training is; return_code: its  *)
(* local), its subprocess as the operating system sees it (proc: "none",   *)
(* "running" or "exited"; exit_code), the lines the thread has read, and   *)
(* whether a cancel_training call for it has returned True.  Every block   *)
(* under self.lock is one step; the steps of a thread outside the lock     *)
(* interleave with the requests.                                           *)
(***************************************************************************)
MaxTasks == 1
MaxLines == 2

\* The return code of a process ended by terminate() (-signal.SIGTERM).
SIGTERM == 15

LinePhases == {"generating_games", "training_model", "completed"}

TrainingTask(training_id) ==
    [training_id |-> training_id, status |-> "queued", current_phase |-> "initializing",
     completed_at |-> FALSE, error |-> FALSE, process |-> FALSE,
     pc |-> "unborn", return_code |-> 0, proc |-> "none", exit_code |-> 0, lines |-> 0,
     cancel_returned |-> FALSE]

\* TrainingController.start_training
StartTraining ==
    /\ Len(tc) < MaxTasks
    /\ tc' = Append(tc, [TrainingTask(Len(tc) + 1) EXCEPT !.status = "running", !.pc = "start"])
    /\ UNCHANGED <<ttVars, searchVars, histVars, iterVars, trial, aborted, first, m2m, gm>>

\* _run_training up to the end of its first block under the lock
RunStart ==
    /\ \E id \in 1 .. Len(tc) :
          /\ tc[id].pc = "start"
          /\ tc' = [tc EXCEPT ![id].current_phase = "starting_training", ![id].pc = "popen"]
    /\ UNCHANGED <<ttVars, searchVars, histVars, iterVars, trial, aborted, first, m2m, gm>>

\* subprocess.Popen(cmd, ...): the process starts, or Popen raises and the
\* except block marks the task failed.
RunPopen ==
    /\ \E id \in 1 .. Len(tc), started \in BOOLEAN :
          /\ tc[id].pc = "popen"
          /\ tc' = IF started
                   THEN [tc EXCEPT ![id].proc = "running", ![id].pc = "assign"]
                   ELSE [tc EXCEPT ![id].status = "failed", ![id].completed_at = TRUE,
                                   ![id].error = TRUE, ![id].pc = "done"]
    /\ UNCHANGED <<ttVars, searchVars, histVars, iterVars, trial, aborted, first, m2m, gm>>

\* task.process = process
RunAssign ==
    /\ \E id \in 1 .. Len(tc) :
          /\ tc[id].pc = "assign"
          /\ tc' = [tc EXCEPT ![id].process = TRUE, ![id].pc = "read"]
    /\ UNCHANGED <<ttVars, searchVars, histVars, iterVars, trial, aborted, first, m2m, gm>>

\* One turn of "for line in process.stdout": a line that names a phase, or
\* another line.
RunReadLine ==
    /\ \E id \in 1 .. Len(tc), phase \in LinePhases \cup {"other"} :
          /\ tc[id].pc = "read"
          /\ tc[id].proc = "running"
          /\ tc[id].lines < MaxLines
          /\ tc' = [tc EXCEPT ![id].lines = @ + 1,
                              ![id].current_phase = IF phase = "other" THEN @ ELSE phase]
    /\ UNCHANGED <<ttVars, searchVars, histVars, iterVars, trial, aborted, first, m2m, gm>>

\* The training process ends by itself.
ProcessExit ==
    /\ \E id \in 1 .. Len(tc), code \in {0, 1} :
          /\ tc[id].proc = "running"
          /\ tc' = [tc EXCEPT ![id].proc = "exited", ![id].exit_code = code]
    /\ UNCHANGED <<ttVars, searchVars, histVars, iterVars, trial, aborted, first, m2m, gm>>

\* The end of process.stdout and return_code = process.wait()
RunWait ==
    /\ \E id \in 1 .. Len(tc) :
          /\ tc[id].pc = "read"
          /\ tc[id].proc = "exited"
          /\ tc' = [tc EXCEPT ![id].return_code = tc[id].exit_code, ![id].pc = "finish"]
    /\ UNCHANGED <<ttVars, searchVars, histVars, iterVars, trial, aborted, first, m2m, gm>>

\* The last block of _run_training under the lock
RunFinish ==
    /\ \E id \in 1 .. Len(tc) :
          /\ tc[id].pc = "finish"
          /\ tc' = IF tc[id].return_code = 0
                   THEN [tc EXCEPT ![id].status = "completed", ![id].completed_at = TRUE,
                                   ![id].current_phase = "completed", ![id].pc = "done"]
                   ELSE [tc EXCEPT ![id].status = "failed", ![id].completed_at = TRUE,
                                   ![id].error = TRUE, ![id].pc = "done"]
    /\ UNCHANGED <<ttVars, searchVars, histVars, iterVars, trial, aborted, first, m2m, gm>>

\* TrainingController.cancel_training, all of it under the lock; a call
\* that returns False changes nothing.
CancelTraining ==
    /\ \E id \in 1 .. Len(tc) :
          LET task == tc[id]
              ended == IF task.process /\ task.proc = "running"
                       THEN [task EXCEPT !.proc = "exited", !.exit_code = -SIGTERM]
                       ELSE task
          IN  tc' = IF task.status \notin {"queued", "running"}
                    THEN tc
                    ELSE [tc EXCEPT ![id] = [ended EXCEPT !.status = "cancelled",
                                                          !.completed_at = TRUE,
                                                          !.cancel_returned = TRUE]]
    /\ UNCHANGED <<ttVars, searchVars, histVars, iterVars, trial, aborted, first, m2m, gm>>

InitTraining ==
    /\ Init
    /\ engine = "mcts"

NextTraining ==
    \/ StartTraining
    \/ RunStart
    \/ RunPopen
    \/ RunAssign
    \/ RunReadLine
    \/ ProcessExit
    \/ RunWait
    \/ RunFinish
    \/ CancelTraining

SpecTraining == InitTraining /\ [][NextTraining]_vars

\* C30: completed, failed and cancelled are absorbing under every
\* interleaving of _run_training with cancel_training, and once a
\* cancel_training call has returned True the status is cancelled for good.
C30_TerminalStatusAbsorbing ==
    /\ [][\A id \in 1 .. Len(tc) :
            tc[id].status \in {"completed", "failed", "cancelled"}
                => tc'[id].status = tc[id].status]_vars
    /\ [](\A id \in 1 .. Len(tc) :
            tc[id].cancel_returned => tc[id].status = "cancelled")
====
